---- MODULE Spec2Model ----
(***************************************************************************)
(* Model of the OpenAI -> Anthropic streaming converter                    *)
(* (src/src/core/converters/response_converter.py).                        *)
(*                                                                         *)
(* Strings are sequences of tokens: a token is either one of the think     *)
(* tags or an opaque piece of text, so that Python's substring test        *)
(* `"<think>" in content` is membership of the tag token and               *)
(* `content.replace(tag, "")` removes the tag tokens.  Python's None is    *)
(* the reserved one-token sequence None; the empty string is <<>>.         *)
(***************************************************************************)
EXTENDS Integers, Sequences, FiniteSets, TLC

\* ------------------------------------------------------------------ bounds
\* Longest upstream stream (number of parsed data lines) in Spec.
MaxChunks == 4
\* Longest upstream stream in SpecInline (content-only deltas).
MaxInlineChunks == 5

\* ------------------------------------------------------- values and strings
None == <<"None">>

\* Python truthiness of an optional string: neither None nor "".
Truthy(s) == s # None /\ s # <<>>

\* Python `tag in s` for a tag token.
Contains(s, tag) == \E i \in 1..Len(s) : s[i] = tag

\* Python s.replace("<think>", "").replace("</think>", "")
StripThinkTags(s) == SelectSeq(s, LAMBDA t : t \notin {"<think>", "</think>"})

RECURSIVE Concat(_)
\* "".join(list of strings)
Concat(ss) == IF ss = <<>> THEN <<>> ELSE Head(ss) \o Concat(Tail(ss))

\* ------------------------------------------------------------------ events
\* One SSE event produced by format_event: its event type, the block index
\* it carries (0 when the event has none), the block / delta / stop_reason
\* kind, and its payload (text tokens, <<id, name>> of a tool_use block, or
\* <<input_tokens, output_tokens>> of a message_delta).
Ev(type, index, kind, data) ==
    [type |-> type, index |-> index, kind |-> kind, data |-> data]

\* message_start carries message.usage.input_tokens
message_start_event(input_tokens) == Ev("message_start", 0, "", <<input_tokens>>)
ping_event == Ev("ping", 0, "", <<>>)
message_stop_event == Ev("message_stop", 0, "", <<>>)
error_event == Ev("error", 0, "api_error", <<>>)
content_block_start(i, kind, data) == Ev("content_block_start", i, kind, data)
content_block_delta(i, kind, data) == Ev("content_block_delta", i, kind, data)
content_block_stop(i) == Ev("content_block_stop", i, "", <<>>)
message_delta(stop_reason, input_tokens, output_tokens) ==
    Ev("message_delta", 0, stop_reason, <<input_tokens, output_tokens>>)

\* ------------------------------------------------------------ stream state
\* StreamState.__init__ ; thinking_mode 0 stands for Python's None.
StreamState ==
    [ has_started |-> FALSE,
      content_started |-> FALSE,
      has_text_content_started |-> FALSE,
      has_finished |-> FALSE,
      thinking_started |-> FALSE,
      thinking_finish |-> FALSE,
      content_index |-> 0,
      thinking_mode |-> 0,
      total_chunks |-> 0,
      tool_call_chunks |-> 0,
      tool_calls |-> <<>>,
      tool_call_index_to_content_block_index |-> <<>>,
      accumulated_content |-> <<>> ]

\* The result of one helper call: the state it leaves, the events it
\* returns, and whether it raised (the events of a call that raised are lost,
\* the state changes it made before raising stay).
Result(st, evs, raised) == [state |-> st, events |-> evs, raised |-> raised]

\* ------------------------------------------------------- upstream chunks
\* A parsed data line: choices[0].delta (content, reasoning_content and
\* tool_calls; an absent or null string field is None, absent tool_calls is
\* <<>>), choices[0].finish_reason (NoFinish when null) and the chunk's usage
\* field (shape "absent", "null" or "object"; in an object a token count of
\* 0 stands for an absent or zero count).
Chunk(content, reasoning_content, tool_calls, finish_reason, usage) ==
    [ content |-> content,
      reasoning_content |-> reasoning_content,
      tool_calls |-> tool_calls,
      finish_reason |-> finish_reason,
      usage |-> usage ]

NoFinish == "None"

\* A parsed data line that also holds the key "error" (line 340:
\* `"error" in chunk_data`), and the test for that key.
WithError(chunk) ==
    [f \in DOMAIN chunk \cup {"error"} |->
        IF f = "error" THEN <<"overloaded">> ELSE chunk[f]]
has_error(chunk) == "error" \in DOMAIN chunk

Usage(shape, p, c) == [shape |-> shape, prompt_tokens |-> p, completion_tokens |-> c]
NoUsage == Usage("absent", 0, 0)

\* One entry of delta.tool_calls: upstream index, id and function.name ("" when
\* absent), function.arguments fragment (<<>> when absent).
ToolCall(index, id, name, arguments) ==
    [index |-> index, id |-> id, name |-> name, arguments |-> arguments]

\* `not delta` of check_thinking_content: the delta carries none of the fields.
DeltaEmpty(delta) ==
    delta.content = None /\ delta.reasoning_content = None /\ delta.tool_calls = <<>>

\* ------------------------------------------------- check_thinking_content
\* Returns the thinking_mode it leaves and its boolean result.
check_thinking_content(delta, st) ==
    LET content == IF Truthy(delta.content) THEN delta.content ELSE <<>> IN
    IF DeltaEmpty(delta) THEN [mode |-> st.thinking_mode, result |-> FALSE]
    ELSE IF st.thinking_mode # 0 THEN [mode |-> st.thinking_mode, result |-> TRUE]
    ELSE IF Contains(content, "<think>") \/ Contains(content, "<thinking>")
         THEN [mode |-> 1, result |-> TRUE]
    ELSE IF Truthy(delta.reasoning_content) THEN [mode |-> 2, result |-> TRUE]
    ELSE [mode |-> 0, result |-> FALSE]

\* `thinking_content is None and not state.thinking_finish`: the test that
\* ends the thinking block.
EndsThinking(thinking_content, st) ==
    thinking_content = None /\ ~st.thinking_finish

\* ------------------------------------------------ process_thinking_content
\* Lines 575-594: detect thinking and open the thinking block.
thinking_start(delta, st) ==
    LET chk == check_thinking_content(delta, st) IN
    IF ~st.thinking_started /\ chk.result
    THEN Result([st EXCEPT !.thinking_mode = chk.mode, !.thinking_started = TRUE],
                << content_block_start(st.content_index, "thinking", <<>>),
                   ping_event >>,
                FALSE)
    ELSE Result([st EXCEPT !.thinking_mode = chk.mode], <<>>, FALSE)

\* Lines 601-602: mode 1 reads delta.get("content") and tests
\* `"</think>" in content`, a TypeError when content is None.
thinking_raises(delta, st) ==
    st.thinking_mode = 1 /\ delta.content = None

\* Lines 598-606: the thinking text of the delta (None when not thinking).
thinking_content(delta, st) ==
    IF st.thinking_mode = 1 THEN StripThinkTags(delta.content)
    ELSE IF st.thinking_mode = 2 THEN delta.reasoning_content
    ELSE None

\* Lines 602-603: a closing tag leaves inline mode.
thinking_close_tag(delta, st) ==
    IF /\ st.thinking_mode = 1
       /\ Contains(delta.content, "</think>") \/ Contains(delta.content, "</thinking>")
    THEN [st EXCEPT !.thinking_mode = 0]
    ELSE st

\* Lines 608-624: forward a non-empty thinking text.
thinking_delta(text, r) ==
    IF text # None /\ text # <<>>
    THEN Result([r.state EXCEPT !.accumulated_content = @ \o text],
                Append(r.events,
                       content_block_delta(r.state.content_index, "thinking_delta", text)),
                FALSE)
    ELSE r

\* Lines 626-655: end the thinking block.
thinking_end(text, r) ==
    IF EndsThinking(text, r.state)
    THEN Result([r.state EXCEPT !.thinking_mode = 0,
                                !.thinking_finish = TRUE,
                                !.content_index = @ + 1],
                r.events \o
                << content_block_delta(r.state.content_index, "signature_delta", <<>>),
                   content_block_stop(r.state.content_index) >>,
                FALSE)
    ELSE r

\* The thinking phase that reports its exception as an error event.
thinking_body_reporting(delta, r) ==
    IF thinking_raises(delta, r.state) THEN Result(r.state, <<error_event>>, TRUE)
    ELSE thinking_end(
             thinking_content(delta, r.state),
             thinking_delta(thinking_content(delta, r.state),
                            Result(thinking_close_tag(delta, r.state), r.events, FALSE)))

\* Lines 596-657, on the result of thinking_start.
thinking_body(delta, r) ==
    IF thinking_raises(delta, r.state) THEN Result(r.state, <<>>, TRUE)
    ELSE thinking_end(
             thinking_content(delta, r.state),
             thinking_delta(thinking_content(delta, r.state),
                            Result(thinking_close_tag(delta, r.state), r.events, FALSE)))

process_thinking_content(delta, st) ==
    thinking_body(delta, thinking_start(delta, st))

\* --------------------------------------------------- check_regular_content
check_regular_content(delta, st) ==
    st.thinking_mode = 0 /\ Truthy(delta.content)

\* ------------------------------------------------- process_regular_content
process_regular_content(delta, st) ==
    IF ~check_regular_content(delta, st) THEN Result(st, <<>>, FALSE)
    ELSE IF ~st.content_started
    THEN Result([st EXCEPT !.content_started = TRUE,
                           !.has_text_content_started = TRUE,
                           !.accumulated_content = @ \o delta.content],
                << content_block_start(st.content_index, "text", <<>>),
                   ping_event,
                   content_block_delta(st.content_index, "text_delta", delta.content) >>,
                FALSE)
    ELSE Result([st EXCEPT !.accumulated_content = @ \o delta.content],
                << content_block_delta(st.content_index, "text_delta", delta.content) >>,
                FALSE)

\* ------------------------------------------------------ process_tool_calls
\* The placeholders `call_<ms>_<k>` and `tool_<k>` given to a tool call whose
\* first fragment has no id or no name.
SyntheticId(k) == <<"call_0", "call_1", "call_2">>[k + 1]
SyntheticName(k) == <<"tool_0", "tool_1", "tool_2">>[k + 1]
StartsWithCall(id) == id \in {"call_0", "call_1", "call_2"}
StartsWithTool(name) == name \in {"tool_0", "tool_1", "tool_2"}

\* The block index computed for a tool call seen for the first time.
new_content_block_index(st) ==
    Cardinality(DOMAIN st.tool_call_index_to_content_block_index)
    + (IF st.has_text_content_started THEN 1 ELSE 0)

tool_call_id(tool_call) ==
    IF tool_call.id # "" THEN tool_call.id ELSE SyntheticId(tool_call.index)
tool_call_name(tool_call) ==
    IF tool_call.name # "" THEN tool_call.name ELSE SyntheticName(tool_call.index)

\* Lines 682-692: unless the new block is the very first one, stop the
\* current block and move to the next index.
tool_call_close_previous(st) ==
    IF new_content_block_index(st) # 0
    THEN Result([st EXCEPT !.content_index = @ + 1],
                << content_block_stop(st.content_index) >>, FALSE)
    ELSE Result(st, <<>>, FALSE)

\* Lines 694-740: record the tool call (nbi is the block index computed
\* before the previous block was stopped) and start its block.
tool_call_open(tool_call, nbi, r) ==
    Result([r.state EXCEPT
              !.tool_call_index_to_content_block_index = @ @@ (tool_call.index :> nbi),
              !.accumulated_content =
                  IF StartsWithTool(tool_call_name(tool_call)) THEN @
                  ELSE Append(@, tool_call_name(tool_call)),
              !.tool_calls = @ @@ (tool_call.index :>
                                     [ id |-> tool_call_id(tool_call),
                                       name |-> tool_call_name(tool_call),
                                       arguments |-> <<>>,
                                       content_block_index |-> nbi ])],
           r.events \o
           << content_block_start(r.state.content_index, "tool_use",
                                  <<tool_call_id(tool_call), tool_call_name(tool_call)>>),
              ping_event >>,
           FALSE)

\* Lines 743-756: a known tool call whose real id and name arrive later.
tool_call_update(tool_call, st) ==
    IF /\ tool_call.id # "" /\ tool_call.name # ""
       /\ tool_call.index \in DOMAIN st.tool_calls
       /\ StartsWithCall(st.tool_calls[tool_call.index].id)
       /\ StartsWithTool(st.tool_calls[tool_call.index].name)
    THEN [st EXCEPT !.tool_calls[tool_call.index].id = tool_call.id,
                    !.tool_calls[tool_call.index].name = tool_call.name]
    ELSE st

\* Lines 758-780: forward the arguments fragment at state.content_index.
tool_call_arguments(tool_call, r) ==
    IF tool_call.arguments # <<>> /\ ~r.state.has_finished
    THEN Result([r.state EXCEPT
                   !.accumulated_content = @ \o tool_call.arguments,
                   !.tool_calls =
                       IF tool_call.index \in DOMAIN r.state.tool_calls
                       THEN [@ EXCEPT ![tool_call.index].arguments =
                                          @ \o tool_call.arguments]
                       ELSE @],
                Append(r.events,
                       content_block_delta(r.state.content_index, "input_json_delta",
                                           tool_call.arguments)),
                FALSE)
    ELSE r

\* The body of the loop of process_tool_calls for one entry of
\* delta.tool_calls whose index was not yet processed in this delta.
process_tool_call(tool_call, st) ==
    tool_call_arguments(
        tool_call,
        IF tool_call.index \notin DOMAIN st.tool_call_index_to_content_block_index
        THEN tool_call_open(tool_call, new_content_block_index(st),
                            tool_call_close_previous(st))
        ELSE Result(tool_call_update(tool_call, st), <<>>, FALSE))

\* One iteration, its events appended to those of the earlier iterations.
tool_call_next(evs, r) == Result(r.state, evs \o r.events, FALSE)
tool_call_step(tool_call, r) ==
    tool_call_next(r.events, process_tool_call(tool_call, r.state))

RECURSIVE tool_calls_loop(_, _, _)
\* `for tool_call in delta["tool_calls"]` with processed_indices
tool_calls_loop(tcs, r, processed_indices) ==
    IF tcs = <<>> THEN r
    ELSE IF Head(tcs).index \in processed_indices
         THEN tool_calls_loop(Tail(tcs), r, processed_indices)
    ELSE tool_calls_loop(Tail(tcs),
                         tool_call_step(Head(tcs), r),
                         processed_indices \cup {Head(tcs).index})

process_tool_calls(delta, st) ==
    tool_calls_loop(delta.tool_calls,
                    Result([st EXCEPT !.tool_call_chunks = @ + 1], <<>>, FALSE), {})

\* ------------------------------------------------------------- token cache
\* The ids of the requests that share the cache, and the id of the request
\* whose stream is converted.
RequestIds == {"req_1", "req_2"}
request_id == "req_1"

\* The read its docstring describes: pop(), whatever `delete` is.
get_cached_tokens_popping(c, rid, delete) ==
    IF rid = "" THEN [ value |-> 0, cache |-> c ]
    ELSE [ value |-> c[rid], cache |-> [c EXCEPT ![rid] = 0] ]

\* get_cached_tokens(request_id, delete): the value read (0 stands for None:
\* cache_tokens stores only counts > 0) and the cache it leaves.
get_cached_tokens(c, rid, delete) ==
    IF rid = "" THEN [ value |-> 0, cache |-> c ]
    ELSE [ value |-> c[rid],
           cache |-> IF delete THEN [c EXCEPT ![rid] = 0] ELSE c ]

\* A store that rebuilds the dictionary around the one entry.
cache_tokens_replacing(c, rid, tokens) ==
    IF rid # "" /\ tokens > 0
    THEN [r \in DOMAIN c |-> IF r = rid THEN tokens ELSE 0]
    ELSE c

\* cache_tokens(request_id, tokens): the cache it leaves (lines 14-23).
cache_tokens(c, rid, tokens) ==
    IF rid # "" /\ tokens > 0 THEN [c EXCEPT ![rid] = tokens] ELSE c

\* token_counter.count_response_tokens on the mock block holding the joined
\* accumulated text: the encoder's token count, one per token of the text.
count_response_tokens(text) == Len(text)

\* ---------------------------------------------------- process_finish_event
stop_reason_mapping(finish_reason) ==
    CASE finish_reason = "stop" -> "end_turn"
      [] finish_reason = "length" -> "max_tokens"
      [] finish_reason = "tool_calls" -> "tool_use"
      [] finish_reason = "content_filter" -> "stop_sequence"
      [] OTHER -> "end_turn"

\* A token count of -1 stands for a JSON null.
\* Lines 849-851: usage_data = chunk_data.get("usage", {}); a null usage makes
\* usage_data.get raise AttributeError.
usage_is_null(chunk) == chunk.usage.shape = "null"

prompt_tokens(chunk) ==
    IF chunk.usage.shape = "object" THEN chunk.usage.prompt_tokens ELSE 0

\* Lines 853-857: the cache is read, and the entry removed, when upstream
\* gave no prompt_tokens.
reads_cache(chunk) == prompt_tokens(chunk) \in {0, -1}

\* The reading that prefers the locally cached estimate to the upstream count.
finish_input_tokens_cache_first(chunk, c) ==
    IF get_cached_tokens(c, request_id, TRUE).value # 0
    THEN get_cached_tokens(c, request_id, TRUE).value
    ELSE prompt_tokens(chunk)

finish_input_tokens(chunk, c) ==
    IF reads_cache(chunk) /\ get_cached_tokens(c, request_id, TRUE).value # 0
    THEN get_cached_tokens(c, request_id, TRUE).value
    ELSE prompt_tokens(chunk)

finish_cache(chunk, c) ==
    IF reads_cache(chunk) THEN get_cached_tokens(c, request_id, TRUE).cache ELSE c

upstream_completion_tokens(chunk) ==
    IF chunk.usage.shape = "object" THEN chunk.usage.completion_tokens ELSE 0

\* Lines 858-872
finish_completion_tokens(chunk, st) ==
    IF upstream_completion_tokens(chunk) \in {0, -1} /\ st.accumulated_content # <<>>
    THEN count_response_tokens(st.accumulated_content)
    ELSE upstream_completion_tokens(chunk)

\* The events of a successful process_finish_event.
finish_events(chunk, st, c) ==
    << content_block_stop(st.content_index),
       message_delta(stop_reason_mapping(chunk.finish_reason),
                     finish_input_tokens(chunk, c),
                     finish_completion_tokens(chunk, st)),
       message_stop_event >>

\* Returns the state, the events, whether it raised, and the cache it leaves.
\* AnthropicUsage(input_tokens=None) fails validation and raises.
process_finish_event(chunk, st, c) ==
    IF usage_is_null(chunk)
    THEN [state |-> [st EXCEPT !.has_finished = TRUE], events |-> <<>>,
          raised |-> TRUE, cache |-> c]
    ELSE IF finish_input_tokens(chunk, c) = -1
    THEN [state |-> [st EXCEPT !.has_finished = TRUE], events |-> <<>>,
          raised |-> TRUE, cache |-> finish_cache(chunk, c)]
    ELSE [state |-> [st EXCEPT !.has_finished = TRUE],
          events |-> finish_events(chunk, st, c),
          raised |-> FALSE, cache |-> finish_cache(chunk, c)]

\* ----------------------------------- the body of the loop over data lines
\* What one data line leaves: the state, the events yielded, the cache.
Out(st, evs, c) == [state |-> st, events |-> evs, cache |-> c]

\* What `continue` after a phase means: the phase produced events, so the
\* later phases do not run for this chunk.
PhaseDone(r) == r.events # <<>>

\* message_start sent for every chunk: the has_started guard forgotten.
message_start_unguarded(st, c) ==
    Result([st EXCEPT !.total_chunks = @ + 1, !.has_started = TRUE],
           << message_start_event(get_cached_tokens(c, request_id, FALSE).value) >>,
           FALSE)

\* Lines 338 and 351-369: count the chunk and send message_start once.
message_start(st, c) ==
    IF ~st.has_started /\ ~st.has_finished
    THEN Result([st EXCEPT !.total_chunks = @ + 1, !.has_started = TRUE],
                << message_start_event(get_cached_tokens(c, request_id, FALSE).value) >>,
                FALSE)
    ELSE Result([st EXCEPT !.total_chunks = @ + 1], <<>>, FALSE)

\* Lines 384-393: a delta with nothing in it and no finish_reason is skipped.
nothing_to_process(chunk) ==
    /\ ~Truthy(chunk.content)
    /\ ~Truthy(chunk.reasoning_content)
    /\ chunk.tool_calls = <<>>
    /\ chunk.finish_reason = NoFinish

\* Lines 417-425: the finish phase; ev0 are the events already yielded.
finish_phase(chunk, ev0, fin) ==
    Out(fin.state, ev0 \o fin.events, fin.cache)

\* The finish phase run without looking at finish_reason.
finish_unconditionally(chunk, ev0, st, c) ==
    finish_phase(chunk, ev0, process_finish_event(chunk, st, c))

finish_or_skip(chunk, ev0, st, c) ==
    IF chunk.finish_reason # NoFinish
    THEN finish_phase(chunk, ev0, process_finish_event(chunk, st, c))
    ELSE Out(st, ev0, c)

\* Lines 409-415: the tool-call phase, on the result tc of process_tool_calls.
after_tool_calls(chunk, ev0, tc, c) ==
    IF PhaseDone(tc) THEN Out(tc.state, ev0 \o tc.events, c)
    ELSE finish_or_skip(chunk, ev0, tc.state, c)

\* Lines 402-407: the text phase, on the result rg of process_regular_content.
after_regular_content(chunk, ev0, rg, c) ==
    IF PhaseDone(rg) THEN Out(rg.state, ev0 \o rg.events, c)
    ELSE IF chunk.tool_calls # <<>>
    THEN after_tool_calls(chunk, ev0, process_tool_calls(chunk, rg.state), c)
    ELSE finish_or_skip(chunk, ev0, rg.state, c)

\* The thinking phase without its `continue`: the text phase runs although
\* the thinking phase yielded events.
after_thinking_content_falling_through(chunk, ev0, th, c) ==
    IF th.raised THEN Out(th.state, ev0 \o th.events, c)
    ELSE after_regular_content(chunk, ev0 \o th.events,
                               process_regular_content(chunk, th.state), c)

\* Lines 395-400: the thinking phase, on the result th of
\* process_thinking_content; an exception ends the chunk (lines 432-437).
after_thinking_content(chunk, ev0, th, c) ==
    IF th.raised \/ PhaseDone(th) THEN Out(th.state, ev0 \o th.events, c)
    ELSE after_regular_content(chunk, ev0,
                               process_regular_content(chunk, th.state), c)

\* Lines 371-425 on the result r0 of message_start.
process_phases(chunk, r0, c) ==
    IF nothing_to_process(chunk) THEN Out(r0.state, r0.events, c)
    ELSE after_thinking_content(chunk, r0.events,
                                process_thinking_content(chunk, r0.state), c)

\* One parsed data line of convert_openai_stream_to_anthropic_stream, from
\* json.loads to the end of the try block: the state and the cache it
\* leaves and the events it yields.
\* The loop body without the test for an error object.
ProcessChunk_without_error_check(chunk, st, c) ==
    process_phases(chunk, message_start(st, c), c)

\* Lines 337-349: the chunk is counted; a chunk with an error object yields
\* one error event and the loop goes on to the next line.
ProcessChunk(chunk, st, c) ==
    IF has_error(chunk)
    THEN Out([st EXCEPT !.total_chunks = @ + 1], <<error_event>>, c)
    ELSE process_phases(chunk, message_start(st, c), c)

\* ------------------------------------------------- request: the messages
\* An absent id (Python None) is the empty string: the code only tests ids
\* for truthiness and equality.
NoId == ""

\* AnthropicMessageContent: `id` is the id of a tool_use block and the
\* tool_use_id of a tool_result block; `text` is the text of a text block
\* and the content of a tool_result block.
Block(type, id, text) == [type |-> type, id |-> id, text |-> text]
TextBlock(text) == Block("text", NoId, text)
ToolUse(id) == Block("tool_use", id, "")
ToolResult(id) == Block("tool_result", id, "result")
\* An image block (models/anthropic.py line 59: type "image"); `text` stands
\* for its source.
ImageBlock(source) == Block("image", NoId, source)

\* AnthropicMessage: content is a string (blocks = <<>>) or a list of blocks.
AnthropicMessage(role, form, text, blocks) ==
    [role |-> role, form |-> form, text |-> text, blocks |-> blocks]
StrMessage(role, text) == AnthropicMessage(role, "str", text, <<>>)
ListMessage(role, blocks) == AnthropicMessage(role, "list", "", blocks)

\* OpenAIMessage: content is None (form "none"), a string or a list of
\* parts; tool_calls holds the ids of the calls (<<>>: None).
OpenAIMessage(role, form, parts, tool_calls, call_id) ==
    [role |-> role, form |-> form, parts |-> parts,
     tool_calls |-> tool_calls, tool_call_id |-> call_id]

\* The blocks of a list content by kind, in order (the loop of lines 293-361).
content_parts(blocks) ==
    SelectSeq(blocks, LAMBDA b : b.type \in {"text", "image_url"})
tool_calls_of(blocks) == SelectSeq(blocks, LAMBDA b : b.type = "tool_use")
tool_results_of(blocks) == SelectSeq(blocks, LAMBDA b : b.type = "tool_result")

\* The main message built from the text parts and the tool calls: a single
\* text part is simplified to a string (lines 366-384 and 399-418).
main_message(role, parts, calls) ==
    OpenAIMessage(role,
                  IF Len(parts) = 0 THEN "none"
                  ELSE IF Len(parts) = 1 /\ parts[1].type = "text" THEN "str"
                  ELSE "list",
                  [k \in 1..Len(parts) |-> parts[k].text],
                  [k \in 1..Len(calls) |-> calls[k].id],
                  NoId)

\* One tool message per tool_result block (lines 387-395).
tool_messages(results) ==
    [k \in 1..Len(results) |->
        OpenAIMessage("tool", "str", <<results[k].text>>, <<>>, results[k].id)]

\* _convert_single_message for a non-empty content: the OpenAI messages the
\* Anthropic message becomes.
convert_list_message(role, parts, calls, results) ==
    IF Len(results) > 0
    THEN (IF Len(parts) > 0 \/ Len(calls) > 0
          THEN <<main_message(role, parts, calls)>> ELSE <<>>)
         \o tool_messages(results)
    ELSE <<main_message(role, parts, calls)>>

_convert_single_message(msg) ==
    IF msg.form = "str"
    THEN <<OpenAIMessage(msg.role, "str", <<msg.text>>, <<>>, NoId)>>
    ELSE convert_list_message(msg.role, content_parts(msg.blocks),
                              tool_calls_of(msg.blocks),
                              tool_results_of(msg.blocks))

\* `not anthropic_msg.content`: the empty string and the empty list raise
\* ValueError (lines 280-281).
EmptyContent(msg) ==
    IF msg.form = "str" THEN Len(msg.text) = 0 ELSE Len(msg.blocks) = 0

\* _convert_system_message for the string form (None: no system prompt).
_convert_system_message(system) ==
    IF system = "" THEN <<>>
    ELSE <<OpenAIMessage("system", "str", <<system>>, <<>>, NoId)>>

RECURSIVE convert_each(_)
convert_each(msgs) ==
    IF Len(msgs) = 0 THEN <<>>
    ELSE _convert_single_message(Head(msgs)) \o convert_each(Tail(msgs))

\* --------------------------------------------- _filter_incomplete_tool_calls
HasToolCalls(m) == m.role = "assistant" /\ Len(m.tool_calls) > 0

\* {call.get("id") for call in tool_calls if call.get("id")}
tool_call_ids(m) ==
    {m.tool_calls[k] : k \in 1..Len(m.tool_calls)} \ {NoId}

\* The index after the run of tool messages that starts at j (lines 531-536).
RECURSIVE tool_run_end(_, _)
tool_run_end(messages, j) ==
    IF j <= Len(messages) /\ messages[j].role = "tool"
    THEN tool_run_end(messages, j + 1)
    ELSE j

\* The declared ids answered by the tool messages i+1 .. j-1.
found_tool_ids(messages, i, j, ids) ==
    {messages[k].tool_call_id : k \in (i + 1)..(j - 1)} \cap ids

\* The backward search of lines 557-569 from position k for an assistant
\* that declared `id`.
RECURSIVE has_corresponding_assistant(_, _, _)
has_corresponding_assistant(messages, k, id) ==
    IF k < 1 THEN FALSE
    ELSE IF HasToolCalls(messages[k])
    THEN (\E c \in 1..Len(messages[k].tool_calls) : messages[k].tool_calls[c] = id)
         \/ has_corresponding_assistant(messages, k - 1, id)
    ELSE IF messages[k].role # "tool" THEN FALSE
    ELSE has_corresponding_assistant(messages, k - 1, id)

\* An unanswered assistant dropped alone, its tool messages kept.
filter_span_keeping_tools(messages, i, j) ==
    IF found_tool_ids(messages, i, j, tool_call_ids(messages[i]))
         = tool_call_ids(messages[i])
    THEN SubSeq(messages, i, j - 1)
    ELSE SubSeq(messages, i + 1, j - 1)

\* What the loop appends for the span i .. j-1 of an assistant with tool
\* calls: the whole span when every declared id is answered, nothing
\* otherwise (lines 539-552).
filter_span(messages, i, j) ==
    IF found_tool_ids(messages, i, j, tool_call_ids(messages[i]))
         = tool_call_ids(messages[i])
    THEN SubSeq(messages, i, j - 1)
    ELSE <<>>

\* What the loop appends for a tool message outside such a span.
filter_tool(messages, i) ==
    IF has_corresponding_assistant(messages, i - 1, messages[i].tool_call_id)
    THEN <<messages[i]>>
    ELSE <<>>

RECURSIVE filter_loop(_, _)
filter_loop(messages, i) ==
    IF i > Len(messages) THEN <<>>
    ELSE IF HasToolCalls(messages[i])
    THEN filter_span(messages, i, tool_run_end(messages, i + 1))
         \o filter_loop(messages, tool_run_end(messages, i + 1))
    ELSE IF messages[i].role = "tool"
    THEN filter_tool(messages, i) \o filter_loop(messages, i + 1)
    ELSE <<messages[i]>> \o filter_loop(messages, i + 1)

_filter_incomplete_tool_calls(messages) == filter_loop(messages, 1)

\* _convert_messages: the system messages, then every converted message,
\* then the repair pass; raised when some message has an empty content.
_convert_messages(system, msgs) ==
    IF \E k \in 1..Len(msgs) : EmptyContent(msgs[k])
    THEN [raised |-> TRUE, messages |-> <<>>]
    ELSE [raised |-> FALSE,
          messages |-> _filter_incomplete_tool_calls(
                           _convert_system_message(system) \o convert_each(msgs))]

\* ------------------------------------------------------- get_target_model
\* The token estimate above which the long-context model is selected.
LongContextThreshold == 100000

\* An unset configuration slot or request parameter (Python None).
Unset == <<>>
NoParam == -1

\* config.models: the routing slots, each a model name (a token sequence).
Models(default, small, think, longContext) ==
    [default |-> default, small |-> small, think |-> think,
     longContext |-> longContext]

\* `thinking` of the request: "None" (absent), the booleans "True" and
\* "False", and the objects {"type": "enabled"}, {"type": "disabled"} and
\* one without a "type" key ("untyped").
ThinkingForms == {"None", "True", "False", "enabled", "disabled", "untyped"}

\* anthropic_request.thinking["type"] raises TypeError for a boolean and
\* KeyError for an object without "type" (lines 64-69).
thinking_type_raises(thinking) == thinking \in {"True", "False", "untyped"}

\* Lines 55-58: the haiku and sonnet hints.
hinted_model(model, models) ==
    IF Contains(model, "haiku") THEN models.small ELSE models.default

\* Lines 64-69.
thinking_model(thinking, resolved, models) ==
    IF thinking = "enabled" THEN models.think ELSE resolved

\* Lines 71-79: the token estimate against the threshold.
long_context_model(total, resolved, models) ==
    IF total > LongContextThreshold THEN models.longContext ELSE resolved

\* The selection without the early return for a model string with a comma.
get_target_model_without_comma_return(model, thinking, total, models) ==
    IF models.default = Unset
    THEN [raised |-> FALSE, model |-> model]
    ELSE IF thinking_type_raises(thinking)
    THEN [raised |-> TRUE, model |-> Unset]
    ELSE [raised |-> FALSE,
          model |-> long_context_model(total,
                        thinking_model(thinking, hinted_model(model, models), models),
                        models)]

\* get_target_model: the selected model, or raised.
get_target_model(model, thinking, total, models) ==
    IF model # Unset /\ Contains(model, ",")
    THEN [raised |-> FALSE, model |-> model]
    ELSE IF models.default = Unset
    THEN [raised |-> FALSE, model |-> model]
    ELSE IF thinking_type_raises(thinking)
    THEN [raised |-> TRUE, model |-> Unset]
    ELSE [raised |-> FALSE,
          model |-> long_context_model(total,
                        thinking_model(thinking, hinted_model(model, models), models),
                        models)]

\* ----------------------------------------------------- parameter overrides
\* config.parameter_overrides and the client's parameters (NoParam: None).
Params(max_tokens, temperature, top_p, top_k) ==
    [max_tokens |-> max_tokens, temperature |-> temperature,
     top_p |-> top_p, top_k |-> top_k]

\* `override or client value`: an override of 0 counts as not configured.
final_param_if_truthy(override, client) ==
    IF override # NoParam /\ override # 0 THEN override ELSE client

\* Lines 133-148: `override if override is not None else client value`.
final_param(override, client) == IF override # NoParam THEN override ELSE client

apply_overrides(overrides, client) ==
    Params(final_param(overrides.max_tokens, client.max_tokens),
           final_param(overrides.temperature, client.temperature),
           final_param(overrides.top_p, client.top_p),
           final_param(overrides.top_k, client.top_k))

\* ------------------------------------------------ convert_anthropic_to_openai
AnthropicRequest(model, thinking, system, messages, params) ==
    [model |-> model, thinking |-> thinking, system |-> system,
     messages |-> messages, params |-> params]

Config(models, parameter_overrides) ==
    [models |-> models, parameter_overrides |-> parameter_overrides]

\* The OpenAIRequest built, or the exception raised on the way.
OpenAIRequest(status, model, messages, params) ==
    [status |-> status, model |-> model, messages |-> messages, params |-> params]
Pending == OpenAIRequest("pending", Unset, <<>>, Params(NoParam, NoParam, NoParam, NoParam))
Raised == OpenAIRequest("raised", Unset, <<>>, Params(NoParam, NoParam, NoParam, NoParam))

build_openai_request(target, converted, params) ==
    IF target.raised \/ converted.raised THEN Raised
    ELSE OpenAIRequest("built", target.model, converted.messages, params)

convert_anthropic_to_openai(req, total, cfg) ==
    build_openai_request(
        get_target_model(req.model, req.thinking, total, cfg.models),
        _convert_messages(req.system, req.messages),
        apply_overrides(cfg.parameter_overrides, req.params))

\* --------------------------------------------------------- convert_response
\* The upstream's non-streaming response. choices is the number of choices
\* (0: missing or empty); message is the first choice's message.
ResponseMessage(present, role, content, reasoning_content, tool_calls) ==
    [present |-> present, role |-> role, content |-> content,
     reasoning_content |-> reasoning_content, tool_calls |-> tool_calls]
NoMessage == ResponseMessage(FALSE, "None", None, None, <<>>)

\* One entry of message.tool_calls. arguments is absent ("none"), the text
\* of a JSON object ("object"), text that does not parse ("invalid") or the
\* text of another JSON value ("other").
ResponseToolCall(id, name, kind, arguments) ==
    [id |-> id, name |-> name, kind |-> kind, arguments |-> arguments]

OpenAIResponse(choices, message, finish_reason, usage, model) ==
    [choices |-> choices, message |-> message, finish_reason |-> finish_reason,
     usage |-> usage, model |-> model]

\* AnthropicContentBlock: text of a text block, thinking of a thinking
\* block, id, name and input of a tool_use block (absent fields empty).
AnthropicContentBlock(type, text, id, name, input) ==
    [type |-> type, text |-> text, id |-> id, name |-> name, input |-> input]

\* Python str.strip() with the whitespace token " ": the text from its first
\* to its last token that is not whitespace.
strip(s) ==
    LET kept == {i \in 1..Len(s) : s[i] # " "}
    IN  IF kept = {} THEN <<>>
        ELSE SubSeq(s, CHOOSE i \in kept : \A j \in kept : i <= j,
                       CHOOSE i \in kept : \A j \in kept : j <= i)

\* The first position from `from` on at which s holds tag (0: none).
IndexFrom(s, tag, from) ==
    IF \E i \in from..Len(s) : s[i] = tag
    THEN CHOOSE i \in from..Len(s) :
            s[i] = tag /\ \A j \in from..(i - 1) : s[j] # tag
    ELSE 0

\* The position of the closing tag of the first <think>...</think> match
\* from `from` on, given the position `open` of the next opening tag (0: no
\* match: the non-greedy pattern needs a closing tag after the opening one).
think_close(s, open) ==
    IF open = 0 THEN 0 ELSE IndexFrom(s, "</think>", open + 1)

\* re.findall(r"<think>(.*?)</think>", s, re.DOTALL) from position `from`.
RECURSIVE think_findall(_, _)
think_findall(s, from) ==
    LET open == IndexFrom(s, "<think>", from)
        close == think_close(s, open)
    IN  IF close = 0 THEN <<>>
        ELSE <<SubSeq(s, open + 1, close - 1)>> \o think_findall(s, close + 1)

\* re.sub(r"<think>(.*?)</think>", "", s, flags=re.DOTALL) from `from`.
RECURSIVE think_sub(_, _)
think_sub(s, from) ==
    LET open == IndexFrom(s, "<think>", from)
        close == think_close(s, open)
    IN  IF close = 0 THEN SubSeq(s, from, Len(s))
        ELSE SubSeq(s, from, open - 1) \o think_sub(s, close + 1)

\* Lines 136-148: the thinking block of reasoning_content.
reasoning_blocks(reasoning_content) ==
    IF Truthy(reasoning_content) /\ strip(reasoning_content) # <<>>
    THEN <<AnthropicContentBlock("thinking", strip(reasoning_content), "", "", <<>>)>>
    ELSE <<>>

\* Lines 154-185: content that holds both think tags.
tagged_thinking_blocks(matches, blocks) ==
    IF matches # <<>> /\ blocks = <<>> /\ strip(matches[1]) # <<>>
    THEN <<AnthropicContentBlock("thinking", strip(matches[1]), "", "", <<>>)>>
    ELSE <<>>
clean_text_blocks(clean_content) ==
    IF clean_content # <<>>
    THEN <<AnthropicContentBlock("text", clean_content, "", "", <<>>)>>
    ELSE <<>>

\* Lines 151-192: the blocks of message.content, after the blocks so far.
content_blocks_of(content, blocks) ==
    IF ~(Truthy(content) /\ strip(content) # <<>>) THEN <<>>
    ELSE IF Contains(content, "<think>") /\ Contains(content, "</think>")
    THEN tagged_thinking_blocks(think_findall(content, 1), blocks)
         \o clean_text_blocks(strip(think_sub(content, 1)))
    ELSE <<AnthropicContentBlock("text", strip(content), "", "", <<>>)>>

\* safe_json_parse(arguments) if arguments else {}: the tokens of the parsed
\* object (<<>>: the empty dict).
tool_input(tool_call) ==
    IF tool_call.kind \in {"object", "other"} THEN tool_call.arguments ELSE <<>>

\* Lines 195-212. OpenAIToolCall.model_validate raises without an id, and
\* AnthropicContentBlock(input=...) raises for a JSON value that is no object.
tool_use_raises(tool_calls) ==
    \E k \in 1..Len(tool_calls) :
        tool_calls[k].id = NoId \/ tool_calls[k].kind = "other"
tool_use_blocks(tool_calls) ==
    [k \in 1..Len(tool_calls) |->
        AnthropicContentBlock("tool_use", <<>>, tool_calls[k].id,
                              tool_calls[k].name, tool_input(tool_calls[k]))]

\* Lines 215-219.
or_empty_text(blocks) ==
    IF blocks = <<>> THEN <<AnthropicContentBlock("text", <<>>, "", "", <<>>)>>
    ELSE blocks

blocks_before_tools(message, blocks) ==
    blocks \o content_blocks_of(message.content, blocks)

\* The extraction that leaves message.content out.
_extract_content_blocks_without_content(message) ==
    IF ~message.present THEN <<>>
    ELSE or_empty_text(reasoning_blocks(message.reasoning_content)
                           \o tool_use_blocks(message.tool_calls))

_extract_content_blocks_with_reasoning(message) ==
    IF ~message.present THEN <<>>
    ELSE or_empty_text(
            blocks_before_tools(message, reasoning_blocks(message.reasoning_content))
                \o tool_use_blocks(message.tool_calls))

\* The text count_response_tokens joins over the blocks: text, thinking,
\* input and name of each block, when truthy.
RECURSIVE response_text(_)
response_text(blocks) ==
    IF blocks = <<>> THEN <<>>
    ELSE Head(blocks).text \o Head(blocks).input
         \o (IF Head(blocks).name = "" THEN <<>> ELSE <<Head(blocks).name>>)
         \o response_text(Tail(blocks))

\* _convert_usage (lines 223-258). The cache is read without delete.
usage_prompt_tokens(usage) ==
    IF usage.shape = "object" THEN usage.prompt_tokens ELSE 0
usage_completion_tokens(usage) ==
    IF usage.shape = "object" THEN usage.completion_tokens ELSE 0
response_input_tokens(usage, rid, c) ==
    IF usage_prompt_tokens(usage) \in {0, -1} /\ rid # ""
          /\ get_cached_tokens(c, rid, FALSE).value # 0
    THEN get_cached_tokens(c, rid, FALSE).value
    ELSE usage_prompt_tokens(usage)
response_output_tokens(usage, blocks) ==
    IF usage_completion_tokens(usage) \in {0, -1} /\ blocks # <<>>
    THEN count_response_tokens(response_text(blocks))
    ELSE usage_completion_tokens(usage)
response_cache(usage, rid, c) ==
    IF usage_prompt_tokens(usage) \in {0, -1} /\ rid # ""
    THEN get_cached_tokens(c, rid, FALSE).cache
    ELSE c

\* AnthropicMessageResponse, or the exception raised on the way.
AnthropicMessageResponse(status, content, model, stop_reason, input_tokens, output_tokens) ==
    [status |-> status, content |-> content, model |-> model,
     stop_reason |-> stop_reason,
     usage |-> [input_tokens |-> input_tokens, output_tokens |-> output_tokens]]
NoResponse == AnthropicMessageResponse("pending", <<>>, Unset, "", 0, 0)
ResponseRaised == AnthropicMessageResponse("raised", <<>>, Unset, "", 0, 0)

\* extract_model_name
extract_model_name(original_model, response_model) ==
    IF original_model # Unset THEN original_model ELSE response_model

\* _map_finish_reason
_map_finish_reason(finish_reason) ==
    CASE finish_reason = "stop" -> "end_turn"
      [] finish_reason = "length" -> "max_tokens"
      [] finish_reason = "content_filter" -> "content_filter"
      [] finish_reason \in {"tool_calls", "function_call"} -> "tool_use"
      [] OTHER -> "end_turn"

\* What raises in convert_response: no choices (ValueError), a message
\* without a valid role, a tool call that fails validation, input_tokens
\* None and no model name (pydantic validation).
response_raises(resp, original_model, rid, c) ==
    \/ resp.choices = 0
    \/ resp.message.present /\ resp.message.role = "None"
    \/ resp.message.present /\ tool_use_raises(resp.message.tool_calls)
    \/ response_input_tokens(resp.usage, rid, c) = -1
    \/ extract_model_name(original_model, resp.model) = Unset

assemble(resp, original_model, rid, c, blocks) ==
    AnthropicMessageResponse("assembled", blocks,
        extract_model_name(original_model, resp.model),
        _map_finish_reason(resp.finish_reason),
        response_input_tokens(resp.usage, rid, c),
        response_output_tokens(resp.usage, blocks))

convert_response(resp, original_model, rid, c) ==
    IF response_raises(resp, original_model, rid, c) THEN ResponseRaised
    ELSE assemble(resp, original_model, rid, c,
                  _extract_content_blocks_with_reasoning(resp.message))

\* ------------------------------------------------------------------- state
VARIABLES
    state,     \* the StreamState of the conversion
    events,    \* the events yielded to the client so far, in order
    cache,     \* token_cache._cache: request id -> cached prompt tokens (0: no entry)
    pc,        \* "reading": in the `async for` over the upstream; "closed": returned;
               \* "idle": no stream is being converted
    inputs,    \* the parsed data lines processed so far (history)
    anthropic_request,  \* the request handed to convert_anthropic_to_openai
    config,             \* the configuration get_config() returns
    total_tokens,       \* what TokenCounter.count_tokens returns for the request
    openai_request,     \* the OpenAIRequest returned (Pending before the call)
    openai_response,    \* the upstream response handed to convert_response
    original_model,     \* the original_model argument of convert_response
    anthropic_response, \* the AnthropicMessageResponse returned (NoResponse before)
    clients,            \* per request id: what its cache calls wrote and read
    http,               \* the exchange RequestTimingMiddleware.dispatch handles
    rewrite_pc,         \* where convert_anthropic_to_openai stands between its
                        \* two reads of the configuration
    wire,               \* the upstream as text: what is still to come, what
                        \* was delivered, and state.buffer
    watcher             \* the ConfigWatcher: observer, handler, executor

stream_vars == <<state, events, pc, inputs>>
rewrite_vars == <<anthropic_request, config, total_tokens, openai_request>>
response_vars == <<openai_response, original_model, anthropic_response>>
service_vars == <<clients, http, rewrite_pc, wire, watcher>>
vars == <<state, events, cache, pc, inputs,
          anthropic_request, config, total_tokens, openai_request,
          openai_response, original_model, anthropic_response,
          clients, http, rewrite_pc, wire, watcher>>

\* The prompt-token count the rewriter cached for the request.
CachedTokens == 9

\* A minimal request and configuration.
NoParams == Params(NoParam, NoParam, NoParam, NoParam)
ClientParams == Params(3, NoParam, NoParam, NoParam)
DefaultModels == Models(<<"D">>, <<"S">>, <<"T">>, <<"L">>)
DefaultRequest ==
    AnthropicRequest(<<"claude", "sonnet">>, "None", "",
                     <<StrMessage("user", "hi")>>, ClientParams)
DefaultConfig == Config(DefaultModels, NoParams)

\* What one request has done with the token cache: how many calls it made,
\* which function its last call was and with which `delete`, the value its last storing cache_tokens call wrote (0: nothing stored, or
\* consumed by a deleting read since) and what its last read returned
\* (0 for None, and before the first read).
Client(calls, op, delete, written, result) ==
    [calls |-> calls, op |-> op, delete |-> delete,
     written |-> written, result |-> result]

\* The exchange in the middleware: the X-Request-ID the client sent ("" when
\* it sent none), the id generate_request_id returned, the response's status
\* and X-Request-ID header ("" when it has none), and the number of
\* exchanges served before.
Exchange(at, supplied, generated, status, header, served) ==
    [at |-> at, supplied |-> supplied, request_id |-> generated,
     status |-> status, header |-> header, served |-> served]
NoExchange == Exchange("idle", "", "", 0, "", 0)

\* convert_anthropic_to_openai before its first read of the configuration
\* ("start"), after get_target_model returned `target` ("selected"), or
\* returned ("done"); reloads counts the configurations published meanwhile.
RewriteStep(at, target, reloads) ==
    [at |-> at, target |-> target, reloads |-> reloads]
AtStart == RewriteStep("start", [raised |-> FALSE, model |-> Unset], 0)

\* The upstream's text in tokens: `pending` is still to be delivered,
\* `delivered` was handed to the converter, `buffer` is state.buffer.
Wire(pending, delivered, buffer) ==
    [pending |-> pending, delivered |-> delivered, buffer |-> buffer]
NoWire == Wire(<<>>, <<>>, <<>>)

\* ConfigWatcher.__init__ (lines 75-88): observer, handler and executor are
\* None (FALSE). `observers` counts the observer threads that run, `timers`
\* the Timer threads started by on_modified that have not yet called
\* _on_config_changed, `checked` those between the test of line 148 and the
\* submit of line 149, `queued` the tasks waiting in the executor and
\* `reloads` the runs of the reload callbacks; `op` is the last operation
\* and `calls` the number of calls and file events so far.
Watcher(observer, handler, executor, observers, timers, checked, queued, reloads, op, calls) ==
    [observer |-> observer, handler |-> handler, executor |-> executor,
     observers |-> observers, timers |-> timers, checked |-> checked,
     queued |-> queued, reloads |-> reloads, op |-> op, calls |-> calls]
NoWatcher == Watcher(FALSE, FALSE, FALSE, 0, 0, 0, 0, 0, "None", 0)

\* No client uses the cache, no exchange is in the middleware, no rewrite
\* stands between its reads, no text is on the wire and nothing is watched.
ServiceIdle ==
    /\ clients = [r \in RequestIds |-> Client(0, "None", FALSE, 0, 0)]
    /\ http = NoExchange
    /\ rewrite_pc = AtStart
    /\ wire = NoWire
    /\ watcher = NoWatcher

\* No request is being rewritten.
RewriteIdle ==
    /\ anthropic_request = DefaultRequest
    /\ config = DefaultConfig
    /\ total_tokens = 0
    /\ openai_request = Pending

\* The response a plain upstream reply gives.
TextMessage(content) == ResponseMessage(TRUE, "assistant", content, None, <<>>)
DefaultResponse ==
    OpenAIResponse(1, TextMessage(<<"Hello">>), "stop", NoUsage, <<"gpt">>)

\* No response is being assembled.
ResponseIdle ==
    /\ openai_response = DefaultResponse
    /\ original_model = <<"claude">>
    /\ anthropic_response = NoResponse

StreamInit ==
    /\ state = StreamState
    /\ events = <<>>
    /\ cache \in {[r \in RequestIds |-> 0],
                  [r \in RequestIds |-> IF r = request_id THEN CachedTokens ELSE 0]}
    /\ pc = "reading"
    /\ inputs = <<>>

Init ==
    /\ state = StreamState
    /\ events = <<>>
    /\ cache \in {[r \in RequestIds |-> 0],
                  [r \in RequestIds |-> IF r = request_id THEN CachedTokens ELSE 0]}
    /\ pc = "reading"
    /\ inputs = <<>>
    /\ ServiceIdle
    /\ RewriteIdle
    /\ ResponseIdle

\* --------------------------------------------------------- upstream inputs
Delta(content, reasoning_content, tool_calls) ==
    Chunk(content, reasoning_content, tool_calls, NoFinish, NoUsage)
ContentChunk(text) == Delta(text, None, <<>>)
ReasoningChunk(text) == Delta(None, text, <<>>)
ToolChunk(tool_call) == Delta(None, None, <<tool_call>>)
FinishChunk(finish_reason, usage) == Chunk(None, None, <<>>, finish_reason, usage)

\* The deltas and finish chunks of the inline-thinking streams.
InlineChunks ==
    { ContentChunk(<<"<think>">>), ContentChunk(<<"plan">>),
      ContentChunk(<<"</think>">>), ContentChunk(<<"Hello">>),
      ContentChunk(<<>>),
      FinishChunk("stop", NoUsage),
      Chunk(<<>>, None, <<>>, "stop", NoUsage) }

\* The chunk shapes of the general streams: text, reasoning, inline thinking,
\* tool-call fragments, and finish chunks with the shapes of delta and usage.
Chunks ==
    { ContentChunk(<<"Hello">>), ContentChunk(<<"world">>), ContentChunk(<<>>),
      ContentChunk(<<"<think>", "plan">>), ContentChunk(<<"</think>">>),
      ReasoningChunk(<<"plan">>),
      ToolChunk(ToolCall(0, "x", "f", <<"A">>)),
      ToolChunk(ToolCall(0, "", "", <<"B">>)),
      ToolChunk(ToolCall(1, "y", "g", <<"A">>)),
      ToolChunk(ToolCall(0, "", "", <<>>)),
      FinishChunk("stop", NoUsage),
      FinishChunk("tool_calls", NoUsage),
      FinishChunk("stop", Usage("null", 0, 0)),
      FinishChunk("length", Usage("object", 7, 3)),
      Chunk(<<"Hello">>, None, <<>>, "stop", NoUsage),
      Chunk(<<>>, None, <<>>, "stop", NoUsage),
      WithError(Delta(None, None, <<>>)),
      WithError(ContentChunk(<<"Hello">>)) }

\* ----------------------------------------------------------------- actions
\* The upstream delivers one data line holding `chunk` (lines 318-438).
Receive(chunk, max) ==
    /\ pc = "reading"
    /\ ~state.has_finished
    /\ Len(inputs) < max
    /\ LET r == ProcessChunk(chunk, state, cache)
       IN  /\ state' = r.state
           /\ events' = events \o r.events
           /\ cache' = r.cache
    /\ inputs' = Append(inputs, chunk)
    /\ pc' = pc
    /\ UNCHANGED <<rewrite_vars, response_vars, service_vars>>

\* The upstream delivers something after the stream has finished: the loop
\* breaks and the generator returns (lines 319-320).
StopReading ==
    /\ pc = "reading"
    /\ state.has_finished
    /\ pc' = "closed"
    /\ UNCHANGED <<state, events, cache, inputs>>
    /\ UNCHANGED <<rewrite_vars, response_vars, service_vars>>

\* The upstream iterator is exhausted: the generator returns.
UpstreamEnd ==
    /\ pc = "reading"
    /\ pc' = "closed"
    /\ UNCHANGED <<state, events, cache, inputs>>
    /\ UNCHANGED <<rewrite_vars, response_vars, service_vars>>

\* Reading the upstream raises (connection lost, timeout): the outer
\* `except Exception` yields one error event and the generator returns
\* (lines 439-447).
UpstreamFailure ==
    /\ pc = "reading"
    /\ events' = Append(events, error_event)
    /\ pc' = "closed"
    /\ UNCHANGED <<state, cache, inputs>>
    /\ UNCHANGED <<rewrite_vars, response_vars, service_vars>>

Next ==
    \/ \E chunk \in Chunks : Receive(chunk, MaxChunks)
    \/ StopReading
    \/ UpstreamEnd
    \/ UpstreamFailure

Spec == Init /\ [][Next]_vars

NextInline ==
    \/ \E chunk \in InlineChunks : Receive(chunk, MaxInlineChunks)
    \/ StopReading
    \/ UpstreamEnd
    \/ UpstreamFailure

SpecInline == Init /\ [][NextInline]_vars

\* The streams of an upstream that reasons in reasoning_content: reasoning
\* deltas, deltas whose reasoning_content is the empty string or absent, with
\* and without content, and finish chunks.
MaxReasoningChunks == 4
ReasoningChunks ==
    { ReasoningChunk(<<"plan">>),
      Delta(<<>>, <<"plan">>, <<>>),
      Delta(<<"Hello">>, <<>>, <<>>),
      Delta(None, <<>>, <<>>),
      ContentChunk(<<"Hello">>),
      ContentChunk(<<"world">>),
      FinishChunk("stop", NoUsage),
      Chunk(None, <<>>, <<>>, "stop", NoUsage) }

NextReasoning ==
    \/ \E chunk \in ReasoningChunks : Receive(chunk, MaxReasoningChunks)
    \/ StopReading
    \/ UpstreamEnd
    \/ UpstreamFailure

SpecReasoning == Init /\ [][NextReasoning]_vars

\* The streams whose chunks carry work for several phases at once: reasoning
\* with content, content with a tool call, a tool call with a finish_reason,
\* and all four together.
MaxPhaseChunks == 3
PhaseChunks ==
    { ReasoningChunk(<<"plan">>),
      ContentChunk(<<"Hello">>),
      Delta(<<"Hello">>, <<"plan">>, <<>>),
      Delta(<<"Hello">>, None, <<ToolCall(0, "x", "f", <<"A">>)>>),
      Delta(None, <<"plan">>, <<ToolCall(0, "x", "f", <<"A">>)>>),
      Chunk(<<"Hello">>, None, <<>>, "stop", NoUsage),
      Chunk(None, None, <<ToolCall(0, "x", "f", <<"A">>)>>, "tool_calls", NoUsage),
      Chunk(None, None, <<ToolCall(0, "", "", <<>>)>>, "tool_calls", NoUsage),
      Chunk(<<"Hello">>, <<"plan">>, <<ToolCall(0, "x", "f", <<"A">>)>>,
            "stop", NoUsage),
      FinishChunk("stop", NoUsage) }

NextPhases ==
    \/ \E chunk \in PhaseChunks : Receive(chunk, MaxPhaseChunks)
    \/ StopReading
    \/ UpstreamEnd
    \/ UpstreamFailure

SpecPhases == Init /\ [][NextPhases]_vars

\* ------------------------------------------------------ the upstream as text
\* The upstream's text is a sequence of tokens: the newline, the prefix of a
\* data line, and pieces of payload. A JSON object is written as its opening
\* piece followed by "}"; any other run of pieces does not parse.
Newline == "\n"
DataPrefix == "data: "
Objects ==
    ("{hello" :> ContentChunk(<<"Hello">>)) @@
    ("{world" :> ContentChunk(<<"world">>)) @@
    ("{stop" :> FinishChunk("stop", NoUsage))

\* json.loads(data): the object, or JSONDecodeError (line 336).
json_loads(data) ==
    IF Len(data) = 2 /\ data[1] \in DOMAIN Objects /\ data[2] = "}"
    THEN [raised |-> FALSE, value |-> Objects[data[1]]]
    ELSE [raised |-> TRUE, value |-> <<>>]

\* A line handler that reports a payload that does not parse to the client.
process_line_reporting(line, r) ==
    IF r.state.has_finished THEN r
    ELSE IF line = <<>> \/ Head(line) # DataPrefix THEN r
    ELSE IF Tail(line) = <<"[DONE]">> THEN r
    ELSE IF json_loads(Tail(line)).raised
    THEN Out(r.state, Append(r.events, error_event), r.cache)
    ELSE Out(ProcessChunk(json_loads(Tail(line)).value, r.state, r.cache).state,
             r.events \o
                 ProcessChunk(json_loads(Tail(line)).value, r.state, r.cache).events,
             ProcessChunk(json_loads(Tail(line)).value, r.state, r.cache).cache)

\* Lines 326-438, one line of the buffer, on the state, events and cache r
\* of the lines before it: nothing after has_finished, nothing for a line
\* that is not a data line or is [DONE]; a JSONDecodeError is logged (lines
\* 427-431); a parsed line is converted.
process_line(line, r) ==
    IF r.state.has_finished THEN r
    ELSE IF line = <<>> \/ Head(line) # DataPrefix THEN r
    ELSE IF Tail(line) = <<"[DONE]">> THEN r
    ELSE IF json_loads(Tail(line)).raised THEN r
    ELSE Out(ProcessChunk(json_loads(Tail(line)).value, r.state, r.cache).state,
             r.events \o
                 ProcessChunk(json_loads(Tail(line)).value, r.state, r.cache).events,
             ProcessChunk(json_loads(Tail(line)).value, r.state, r.cache).cache)

RECURSIVE process_lines(_, _)
\* Line 326: `for line in lines`.
process_lines(lines, r) ==
    IF lines = <<>> THEN r
    ELSE process_lines(Tail(lines), process_line(Head(lines), r))

\* A buffer that forgets what the chunks before left in it.
buffer_replaced(buffer, chunk) == chunk

\* Line 322: state.buffer += chunk.
buffer_extended(buffer, chunk) == buffer \o chunk

RECURSIVE split_lines(_, _, _)
\* Lines 323-324: buffer.split("\n") and lines.pop(): the lines ended by a
\* newline, and the rest that stays in the buffer.
split_lines(text, line, lines) ==
    IF text = <<>> THEN [lines |-> lines, rest |-> line]
    ELSE IF Head(text) = Newline
    THEN split_lines(Tail(text), <<>>, Append(lines, line))
    ELSE split_lines(Tail(text), Append(line, Head(text)), lines)

\* The texts: up to MaxLines lines, each ended by a newline, and a last piece
\* without one.
MaxLines == 3
WireLines ==
    { <<DataPrefix, "{hello", "}">>, <<DataPrefix, "{world", "}">>,
      <<DataPrefix, "{stop", "}">>, <<DataPrefix, "{hello">>,
      <<DataPrefix, "[DONE]">>, <<": keep-alive">>, <<>> }
WireTails == { <<>>, <<DataPrefix, "{world", "}">>, <<DataPrefix, "{stop">> }

RECURSIVE join_lines(_)
join_lines(lines) ==
    IF lines = <<>> THEN <<>>
    ELSE Head(lines) \o <<Newline>> \o join_lines(Tail(lines))

WireTexts ==
    { join_lines(ls) \o tail :
        ls \in UNION { [1..n -> WireLines] : n \in 0..MaxLines },
        tail \in WireTails }

WireCache == [r \in RequestIds |-> IF r = request_id THEN CachedTokens ELSE 0]

InitWire ==
    /\ state = StreamState
    /\ events = <<>>
    /\ cache = WireCache
    /\ pc = "reading"
    /\ inputs = <<>>
    /\ RewriteIdle
    /\ ResponseIdle
    /\ clients = [r \in RequestIds |-> Client(0, "None", FALSE, 0, 0)]
    /\ http = NoExchange
    /\ rewrite_pc = AtStart
    /\ watcher = NoWatcher
    /\ \E text \in WireTexts : wire = Wire(text, <<>>, <<>>)

\* Lines 318-438: the upstream yields the next n tokens of its text as one
\* chunk; the buffer is extended and split, and the complete lines are
\* handled.
Deliver(n) ==
    /\ pc = "reading"
    /\ ~state.has_finished
    /\ n <= Len(wire.pending)
    /\ LET sp == split_lines(buffer_extended(wire.buffer, SubSeq(wire.pending, 1, n)),
                             <<>>, <<>>)
           r == process_lines(sp.lines, Out(state, <<>>, cache))
       IN  /\ state' = r.state
           /\ events' = events \o r.events
           /\ cache' = r.cache
           /\ wire' = Wire(SubSeq(wire.pending, n + 1, Len(wire.pending)),
                           wire.delivered \o SubSeq(wire.pending, 1, n),
                           sp.rest)
    /\ UNCHANGED <<pc, inputs, rewrite_vars, response_vars>>
    /\ UNCHANGED <<clients, http, rewrite_pc, watcher>>

\* The upstream has yielded all of its text: the generator returns.
UpstreamExhausted ==
    /\ wire.pending = <<>>
    /\ UpstreamEnd

NextWire ==
    \/ \E n \in 1..(4 * MaxLines + 3) : Deliver(n)
    \/ StopReading
    \/ UpstreamExhausted

SpecWire == InitWire /\ [][NextWire]_vars

\* ------------------------------------------------------ the request rewriter
\* The histories: up to MaxMessages messages of these shapes.
MaxMessages == 4

Messages ==
    { StrMessage("user", "hi"),
      StrMessage("assistant", "ok"),
      StrMessage("user", ""),
      ListMessage("assistant", <<ToolUse("x")>>),
      ListMessage("assistant", <<ToolUse("y")>>),
      ListMessage("assistant", <<ToolUse("x"), ToolUse("y")>>),
      ListMessage("assistant", <<TextBlock("t"), ToolUse("x")>>),
      ListMessage("assistant", <<ToolUse(NoId)>>),
      ListMessage("user", <<ToolResult("x")>>),
      ListMessage("user", <<ToolResult("y")>>),
      ListMessage("user", <<ToolResult("x"), ToolResult("y")>>),
      ListMessage("user", <<ToolResult("x"), ToolResult("x")>>),
      ListMessage("user", <<TextBlock("t"), ToolResult("x")>>),
      ListMessage("user", <<ToolResult(NoId)>>),
      ListMessage("user", <<>>) }

Histories == UNION {[1..n -> Messages] : n \in 1..MaxMessages}

\* The model strings: with the haiku and sonnet hints, with neither, with
\* both, and with a comma.
ModelStrings ==
    { <<"claude", "sonnet">>, <<"claude", "haiku">>, <<"gpt">>,
      <<"haiku", "sonnet">>, <<"a", ",", "b">>, <<"haiku", ",", "x">> }

TokenEstimates == {0, LongContextThreshold, LongContextThreshold + 1}

OverrideValues == {NoParam, 0, 7}

\* The requests: one family varies the history, one the inputs of the model
\* selection, one the parameters and their overrides.
InitMessages ==
    /\ \E h \in Histories, system \in {"", "sys"} :
          anthropic_request =
              AnthropicRequest(<<"claude", "sonnet">>, "None", system, h, ClientParams)
    /\ config = DefaultConfig
    /\ total_tokens = 0

InitModels ==
    /\ \E m \in ModelStrings, t \in ThinkingForms :
          anthropic_request =
              AnthropicRequest(m, t, "", <<StrMessage("user", "hi")>>, ClientParams)
    /\ \E d \in {Unset, <<"D">>} :
          config = Config(Models(d, <<"S">>, <<"T">>, <<"L">>), NoParams)
    /\ total_tokens \in TokenEstimates

InitParams ==
    /\ \E t \in {NoParam, 1}, p \in {NoParam, 1}, k \in {NoParam, 5} :
          anthropic_request =
              AnthropicRequest(<<"claude", "sonnet">>, "None", "",
                               <<StrMessage("user", "hi")>>, Params(3, t, p, k))
    /\ \E m \in OverrideValues, t \in OverrideValues,
          p \in OverrideValues, k \in OverrideValues :
          config = Config(DefaultModels, Params(m, t, p, k))
    /\ total_tokens = 0

\* No stream is being converted.
StreamIdle ==
    /\ state = StreamState
    /\ events = <<>>
    /\ cache = [r \in RequestIds |-> 0]
    /\ pc = "idle"
    /\ inputs = <<>>

InitRewrite ==
    /\ StreamIdle
    /\ ServiceIdle
    /\ ResponseIdle
    /\ openai_request = Pending
    /\ (InitMessages \/ InitModels \/ InitParams)

\* convert_anthropic_to_openai is called on the request (lines 84-198).
Rewrite ==
    /\ openai_request = Pending
    /\ openai_request' =
          convert_anthropic_to_openai(anthropic_request, total_tokens, config)
    /\ UNCHANGED <<anthropic_request, config, total_tokens>>
    /\ UNCHANGED <<stream_vars, cache, response_vars, service_vars>>

NextRewrite == Rewrite

SpecRewrite == InitRewrite /\ [][NextRewrite]_vars

\* ------------------------------------------------- reading the event stream
IsType(e, type) == e.type = type
Count(type) == Cardinality({i \in 1..Len(events) : events[i].type = type})
BlockEventTypes == {"content_block_start", "content_block_delta", "content_block_stop"}
IsStart(e) == e.type = "content_block_start"
IsStop(e) == e.type = "content_block_stop"
IsDelta(e, kind) == e.type = "content_block_delta" /\ e.kind = kind

\* Some processed chunk carried a non-null finish_reason.
SawFinish == \E i \in 1..Len(inputs) : inputs[i].finish_reason # NoFinish
\* The stream was finalized: message_stop was delivered.
Finalized == Count("message_stop") > 0
\* The chunk just received by a Receive step.
Received == inputs'[Len(inputs')]
IsReceive == Len(inputs') = Len(inputs) + 1
\* The events yielded by the step.
Yielded == SubSeq(events', Len(events) + 1, Len(events'))

\* ---------------------------------------------------------------------- C1
\* C1: once the upstream has delivered a chunk with a non-null finish_reason
\* and the converter has returned, the client has received exactly one
\* message_start, exactly one message_delta and exactly one message_stop.
C1_SingleFinalization ==
    (pc = "closed" /\ SawFinish) =>
        /\ Count("message_start") = 1
        /\ Count("message_delta") = 1
        /\ Count("message_stop") = 1

\* ---------------------------------------------------------------------- C2
\* content_block_start and content_block_stop are paired in evs.
BlocksPaired(evs) ==
    LET starts == {i \in 1..Len(evs) : IsStart(evs[i])}
        stops == {i \in 1..Len(evs) : IsStop(evs[i])}
    IN  /\ Cardinality(starts) = Cardinality(stops)
        /\ \A j \in stops :
             \E p \in starts :
                /\ p < j
                /\ evs[p].index = evs[j].index
                /\ \A q \in stops : (p < q /\ q < j) => evs[q].index # evs[j].index
        /\ \A p \in starts :
             Cardinality({j \in stops : j > p /\ evs[j].index = evs[p].index}) = 1

\* C2: in the event sequence of every finalized stream content_block_start and
\* content_block_stop are paired: as many starts as stops, every stop(i) closes
\* a start(i) that is still open, every started block is stopped exactly once.
C2_BlocksPaired == Finalized => BlocksPaired(events)

\* ---------------------------------------------------------------------- C3
\* C3: the indices of the content_block_start events of a stream are
\* 0, 1, ..., n-1 in the order of emission.
C3_StartIndicesDense ==
    LET starts == SelectSeq(events, IsStart)
    IN  \A k \in 1..Len(starts) : starts[k].index = k - 1

\* ---------------------------------------------------------------------- C4
\* C4: processing the first chunk whose finish_reason is non-null sets
\* has_finished and yields, as its last events, content_block_stop for the
\* current block, message_delta with the mapped stop_reason and message_stop,
\* whatever the chunk's delta carries.
C4_FirstFinishChunkFinalizes ==
    [][ (IsReceive /\ ~SawFinish /\ Received.finish_reason # NoFinish) =>
           /\ state'.has_finished
           /\ Len(Yielded) >= 3
           /\ LET n == Len(Yielded) IN
              /\ IsStop(Yielded[n - 2])
              /\ Yielded[n - 1].type = "message_delta"
              /\ Yielded[n - 1].kind = stop_reason_mapping(Received.finish_reason)
              /\ Yielded[n].type = "message_stop" ]_vars

C6_ThinkingClosure ==
    \A p \in 1..Len(events) :
        (IsStart(events[p]) /\ events[p].kind = "thinking") =>
            \A q \in (p + 1)..Len(events) :
                ( /\ IsStop(events[q]) /\ events[q].index = events[p].index
                  /\ \A j \in (p + 1)..(q - 1) :
                        ~(IsStop(events[j]) /\ events[j].index = events[p].index) )
                => \E j \in (p + 1)..(q - 1) :
                        /\ IsDelta(events[j], "signature_delta")
                        /\ events[j].index = events[p].index

\* ---------------------------------------------------------------------- C7
TextDeltas(evs) == SelectSeq(evs, LAMBDA e : IsDelta(e, "text_delta"))

\* C7: while the stream is not in the thinking phase and not finished, a
\* delta with non-empty content (and no think tag or reasoning that would
\* start thinking) yields exactly one text_delta carrying that content.
C7_TextForwarded ==
    [][ ( /\ IsReceive
          /\ state.thinking_mode = 0
          /\ ~state.has_finished
          /\ Truthy(Received.content)
          /\ ~Contains(Received.content, "<think>")
          /\ ~Contains(Received.content, "<thinking>")
          /\ ~Truthy(Received.reasoning_content) ) =>
           /\ Len(TextDeltas(events')) = Len(TextDeltas(events)) + 1
           /\ TextDeltas(events')[Len(TextDeltas(events'))].data = Received.content
      ]_vars

\* ---------------------------------------------------------------------- C8
\* What the client sees of an event: its type, block index and kind, and the
\* text of a content_block_delta.
Seen(e) ==
    [ type |-> e.type,
      index |-> e.index,
      kind |-> e.kind,
      text |-> IF e.type = "content_block_delta" THEN e.data ELSE <<>> ]
SeenAll(evs) == [i \in 1..Len(evs) |-> Seen(evs[i])]
See(type, index, kind, text) ==
    [type |-> type, index |-> index, kind |-> kind, text |-> text]

\* C8: for the content chunks "<think>", "plan", "</think>", "Hello" and a
\* finish chunk with finish_reason stop, the client sees exactly
\* message_start, content_block_start(0, thinking), ping,
\* thinking_delta(0, "plan"), signature_delta(0), content_block_stop(0),
\* content_block_start(1, text), ping, text_delta(1, "Hello"),
\* content_block_stop(1), message_delta(end_turn), message_stop.
C8_InlineThinkingScenario ==
    ( inputs = << ContentChunk(<<"<think>">>), ContentChunk(<<"plan">>),
                  ContentChunk(<<"</think>">>), ContentChunk(<<"Hello">>),
                  FinishChunk("stop", NoUsage) >> )
    => SeenAll(events) =
         << See("message_start", 0, "", <<>>),
            See("content_block_start", 0, "thinking", <<>>),
            See("ping", 0, "", <<>>),
            See("content_block_delta", 0, "thinking_delta", <<"plan">>),
            See("content_block_delta", 0, "signature_delta", <<>>),
            See("content_block_stop", 0, "", <<>>),
            See("content_block_start", 1, "text", <<>>),
            See("ping", 0, "", <<>>),
            See("content_block_delta", 1, "text_delta", <<"Hello">>),
            See("content_block_stop", 1, "", <<>>),
            See("message_delta", 0, "end_turn", <<>>),
            See("message_stop", 0, "", <<>>) >>

\* ---------------------------------------------------------------------- C9
\* The events of a tool-call exchange: everything but message_start and ping,
\* without the block indices.
ToolView(evs) ==
    LET kept == SelectSeq(evs, LAMBDA e : e.type \notin {"message_start", "ping"})
    IN  [i \in 1..Len(kept) |->
            <<kept[i].type, kept[i].kind,
              IF kept[i].type = "message_delta" THEN <<>> ELSE kept[i].data>>]

\* C9: for the chunks tool_calls[{index 0, id "x", name "f", arguments A}],
\* tool_calls[{index 0, arguments B}] and a finish chunk, the client receives
\* one content_block_start of type tool_use with id "x" and name "f", two
\* input_json_delta events carrying A then B, then content_block_stop,
\* message_delta and message_stop.
C9_ToolCallScenario ==
    ( inputs = << ToolChunk(ToolCall(0, "x", "f", <<"A">>)),
                  ToolChunk(ToolCall(0, "", "", <<"B">>)),
                  FinishChunk("tool_calls", NoUsage) >> )
    => ToolView(events) =
         << <<"content_block_start", "tool_use", <<"x", "f">> >>,
            <<"content_block_delta", "input_json_delta", <<"A">> >>,
            <<"content_block_delta", "input_json_delta", <<"B">> >>,
            <<"content_block_stop", "", <<>> >>,
            <<"message_delta", "tool_use", <<>> >>,
            <<"message_stop", "", <<>> >> >>

C11_SilenceAfterStop == [][Finalized => events' = events]_vars

\* ----------------------------------------------- the response converters
\* The streams of the usage cases: up to MaxUsageChunks chunks of text and
\* reasoning and finish chunks with every shape of usage (-1: JSON null).
MaxUsageChunks == 3

UsageShapes ==
    { NoUsage, Usage("null", 0, 0), Usage("object", 7, 3), Usage("object", 0, 0),
      Usage("object", -1, -1), Usage("object", 7, 0), Usage("object", 0, 3) }

UsageChunks ==
    { ContentChunk(<<"Hello">>), ReasoningChunk(<<"plan">>) }
    \cup {FinishChunk("stop", u) : u \in UsageShapes}

\* The upstream responses: the shapes of the first choice's message with the
\* shapes of usage, and the shapes of the rest of the response.
ResponseMessages ==
    { NoMessage,
      TextMessage(<<"Hello">>),
      TextMessage(<<>>),
      TextMessage(<<"<think>", "plan", "</think>", " ", "Hello">>),
      ResponseMessage(TRUE, "assistant", <<"Hello">>, <<"plan">>, <<>>),
      ResponseMessage(TRUE, "assistant", None, None,
                      <<ResponseToolCall("x", "f", "object", <<"A">>)>>),
      ResponseMessage(TRUE, "assistant", None, None,
                      <<ResponseToolCall("x", "f", "invalid", <<"A">>)>>),
      ResponseMessage(TRUE, "assistant", None, None,
                      <<ResponseToolCall(NoId, "f", "none", <<>>)>>),
      ResponseMessage(TRUE, "None", <<"Hello">>, None, <<>>) }

Responses ==
    {OpenAIResponse(1, m, "stop", u, <<"gpt">>) :
        m \in ResponseMessages, u \in UsageShapes}
    \cup {OpenAIResponse(n, TextMessage(<<"Hello">>), f, NoUsage, m) :
        n \in {0, 1}, f \in {"stop", "length", "tool_calls", "None"},
        m \in {Unset, <<"gpt">>}}

InitResponse ==
    /\ StreamInit
    /\ ServiceIdle
    /\ RewriteIdle
    /\ openai_response \in Responses
    /\ original_model \in {Unset, <<"claude">>}
    /\ anthropic_response = NoResponse

\* convert_response is called on the upstream response (lines 44-113).
Assemble ==
    /\ anthropic_response = NoResponse
    /\ anthropic_response' =
          convert_response(openai_response, original_model, request_id, cache)
    /\ cache' = IF openai_response.choices = 0 THEN cache
                ELSE response_cache(openai_response.usage, request_id, cache)
    /\ UNCHANGED <<openai_response, original_model>>
    /\ UNCHANGED <<stream_vars, rewrite_vars, service_vars>>

NextResponse ==
    \/ \E chunk \in UsageChunks : Receive(chunk, MaxUsageChunks)
    \/ StopReading
    \/ UpstreamEnd
    \/ UpstreamFailure
    \/ Assemble

SpecResponse == InitResponse /\ [][NextResponse]_vars

\* ------------------------------------------------- request, reply, response
\* A text-only exchange: the request holds one message with string content
\* X, the upstream replies to the rewritten request with a single choice
\* whose message content is the content it was sent, and the reply is
\* assembled.
MaxTextLen == 3

TextTokens == {"Hello", " ", "<think>", "</think>"}
Texts == UNION {[1..n -> TextTokens] : n \in 0..MaxTextLen}

\* No reply has arrived yet.
NoReply == OpenAIResponse(0, NoMessage, "None", NoUsage, Unset)

InitRoundTrip ==
    /\ StreamIdle
    /\ ServiceIdle
    /\ \E content \in Texts, role \in {"user", "assistant"} :
          anthropic_request =
              AnthropicRequest(<<"claude", "sonnet">>, "None", "",
                               <<StrMessage(role, content)>>, ClientParams)
    /\ config = DefaultConfig
    /\ total_tokens = 0
    /\ openai_request = Pending
    /\ openai_response = NoReply
    /\ original_model = <<"claude">>
    /\ anthropic_response = NoResponse

\* The upstream answers the rewritten request with the content of its
\* message, with or without usage.
Reply ==
    /\ openai_request.status = "built"
    /\ openai_response = NoReply
    /\ \E usage \in {NoUsage, Usage("object", 7, 3)} :
          openai_response' =
              OpenAIResponse(1, TextMessage(openai_request.messages[1].parts[1]),
                             "stop", usage, <<"gpt">>)
    /\ UNCHANGED <<original_model, anthropic_response>>
    /\ UNCHANGED <<stream_vars, cache, rewrite_vars, service_vars>>

\* The reply is handed to convert_response.
AssembleReply == openai_response # NoReply /\ Assemble

NextRoundTrip == Rewrite \/ Reply \/ AssembleReply

SpecRoundTrip == InitRoundTrip /\ [][NextRoundTrip]_vars

\* ------------------------------------------------- one message of blocks
\* Requests of one message whose content is a list of up to MaxBlocks
\* blocks.
MaxBlocks == 3
BlockShapes ==
    { TextBlock("a"), TextBlock("b"), ImageBlock("png"),
      ToolUse("x"), ToolResult("x") }

InitBlocks ==
    /\ StreamIdle
    /\ ServiceIdle
    /\ ResponseIdle
    /\ \E role \in {"user", "assistant"},
          blocks \in UNION {[1..n -> BlockShapes] : n \in 1..MaxBlocks} :
          anthropic_request =
              AnthropicRequest(<<"claude", "sonnet">>, "None", "",
                               <<ListMessage(role, blocks)>>, ClientParams)
    /\ config = DefaultConfig
    /\ total_tokens = 0
    /\ openai_request = Pending

SpecBlocks == InitBlocks /\ [][Rewrite]_vars

\* ------------------------------------------------------- the repair pass
\* The repair pass on its own: `converted` is the list handed to
\* _filter_incomplete_tool_calls, `messages` the list it returned last.
Repairing(status, converted, messages) ==
    [status |-> status, converted |-> converted, messages |-> messages]

\* Lists of up to MaxRepairLen messages: user and assistant text, assistants
\* declaring one or two tool calls or a call without id, and tool messages.
MaxRepairLen == 4
RepairShapes ==
    { OpenAIMessage("user", "str", <<"a">>, <<>>, NoId),
      OpenAIMessage("assistant", "str", <<"b">>, <<>>, NoId),
      OpenAIMessage("assistant", "none", <<>>, <<"x">>, NoId),
      OpenAIMessage("assistant", "none", <<>>, <<"x", "y">>, NoId),
      OpenAIMessage("assistant", "none", <<>>, <<NoId>>, NoId),
      OpenAIMessage("tool", "str", <<"r">>, <<>>, "x"),
      OpenAIMessage("tool", "str", <<"r">>, <<>>, "y") }

InitRepair ==
    /\ StreamIdle
    /\ ServiceIdle
    /\ ResponseIdle
    /\ anthropic_request = DefaultRequest
    /\ config = DefaultConfig
    /\ total_tokens = 0
    /\ \E converted \in UNION {[1..n -> RepairShapes] : n \in 0..MaxRepairLen} :
          openai_request = Repairing("converted", converted, converted)

\* _convert_messages hands the converted list to the repair pass.
Repair ==
    /\ openai_request.status = "converted"
    /\ openai_request' =
          [openai_request EXCEPT
              !.status = "repaired",
              !.messages = _filter_incomplete_tool_calls(@)]
    /\ UNCHANGED <<anthropic_request, config, total_tokens>>
    /\ UNCHANGED <<stream_vars, cache, response_vars, service_vars>>

\* The repair pass is applied to the list it returned.
RepairAgain ==
    /\ openai_request.status = "repaired"
    /\ openai_request' =
          [openai_request EXCEPT
              !.status = "repaired again",
              !.messages = _filter_incomplete_tool_calls(@)]
    /\ UNCHANGED <<anthropic_request, config, total_tokens>>
    /\ UNCHANGED <<stream_vars, cache, response_vars, service_vars>>

NextRepair == Repair \/ RepairAgain

SpecRepair == InitRepair /\ [][NextRepair]_vars

\* ------------------------------------------- concurrent users of the cache
\* The requests of RequestIds run as coroutines of one event loop and call
\* cache_tokens and get_cached_tokens in any order. Neither function awaits,
\* and each touches the dictionary in one operation, so a call is one step.
MaxCalls == 3
TokenCounts == {0, 5, CachedTokens}

InitCache ==
    /\ StreamIdle
    /\ RewriteIdle
    /\ ResponseIdle
    /\ ServiceIdle

\* The request `rid` calls cache_tokens(rid, tokens).
CallCacheTokens(rid, tokens) ==
    /\ clients[rid].calls < MaxCalls
    /\ cache' = cache_tokens(cache, rid, tokens)
    /\ clients' = [clients EXCEPT ![rid] =
           Client(@.calls + 1, "cache_tokens", FALSE,
                  IF tokens > 0 THEN tokens ELSE @.written, @.result)]
    /\ UNCHANGED <<stream_vars, rewrite_vars, response_vars, http, rewrite_pc, wire, watcher>>

\* The request `rid` calls get_cached_tokens(rid, delete).
CallGetCachedTokens(rid, delete) ==
    /\ clients[rid].calls < MaxCalls
    /\ cache' = get_cached_tokens(cache, rid, delete).cache
    /\ clients' = [clients EXCEPT ![rid] =
           Client(@.calls + 1, "get_cached_tokens", delete,
                  IF delete THEN 0 ELSE @.written,
                  get_cached_tokens(cache, rid, delete).value)]
    /\ UNCHANGED <<stream_vars, rewrite_vars, response_vars, http, rewrite_pc, wire, watcher>>

NextCache ==
    \/ \E rid \in RequestIds, tokens \in TokenCounts : CallCacheTokens(rid, tokens)
    \/ \E rid \in RequestIds, delete \in BOOLEAN : CallGetCachedTokens(rid, delete)

SpecCache == InitCache /\ [][NextCache]_vars

\* ------------------------------------------------ rewrite under hot reload
\* The watcher runs on_config_reload on a thread of its own, so a reload can
\* fall anywhere between the steps of a rewrite. get_config() returns the
\* configuration published last.
MaxReloads == 2
get_config == config

\* The versions of the configuration file.
Versions ==
    { Config(DefaultModels, NoParams),
      Config(Models(<<"D2">>, <<"S2">>, <<"T2">>, <<"L2">>),
             Params(7, NoParam, NoParam, NoParam)),
      Config(Models(<<"D3">>, <<"S2">>, <<"T">>, <<"L">>),
             Params(NoParam, 0, NoParam, NoParam)) }

InitReload ==
    /\ StreamIdle
    /\ ResponseIdle
    /\ clients = [r \in RequestIds |-> Client(0, "None", FALSE, 0, 0)]
    /\ http = NoExchange
    /\ rewrite_pc = AtStart
    /\ wire = NoWire
    /\ watcher = NoWatcher
    /\ \E m \in ModelStrings, t \in {"None", "enabled"} :
          anthropic_request =
              AnthropicRequest(m, t, "", <<StrMessage("user", "hi")>>, ClientParams)
    /\ config \in Versions
    /\ total_tokens \in {0, LongContextThreshold + 1}
    /\ openai_request = Pending

\* Lines 103-106: get_target_model reads the configuration and selects.
SelectModel ==
    /\ rewrite_pc.at = "start"
    /\ rewrite_pc' =
          [rewrite_pc EXCEPT
              !.at = "selected",
              !.target = get_target_model(anthropic_request.model,
                                          anthropic_request.thinking,
                                          total_tokens, get_config.models)]
    /\ UNCHANGED <<stream_vars, cache, rewrite_vars, response_vars, clients, http, wire, watcher>>

\* Lines 120-198: the messages are converted, the configuration is read
\* again for parameter_overrides and the request is built.
ApplyOverrides ==
    /\ rewrite_pc.at = "selected"
    /\ openai_request' =
          build_openai_request(
              rewrite_pc.target,
              _convert_messages(anthropic_request.system, anthropic_request.messages),
              apply_overrides(get_config.parameter_overrides,
                              anthropic_request.params))
    /\ rewrite_pc' = [rewrite_pc EXCEPT !.at = "done"]
    /\ UNCHANGED <<anthropic_request, config, total_tokens>>
    /\ UNCHANGED <<stream_vars, cache, response_vars, clients, http, wire, watcher>>

\* on_config_reload: reload_config() publishes the edited file.
Reload ==
    /\ rewrite_pc.reloads < MaxReloads
    /\ \E cfg \in Versions \ {config} : config' = cfg
    /\ rewrite_pc' = [rewrite_pc EXCEPT !.reloads = @ + 1]
    /\ UNCHANGED <<anthropic_request, total_tokens, openai_request>>
    /\ UNCHANGED <<stream_vars, cache, response_vars, clients, http, wire, watcher>>

NextReload == SelectModel \/ ApplyOverrides \/ Reload

SpecReload == InitReload /\ [][NextReload]_vars

\* ------------------------------------------------ RequestTimingMiddleware
\* The exchanges one connection carries, one after the other.
MaxExchanges == 2

\* The X-Request-ID headers a client sends ("" for none), the ids uuid4
\* gives, and the statuses the handlers answer with.
SuppliedIds == {"", "abc", "req_u1"}
FreshIds == {"req_u1", "req_u2", "req_u3"}
HandlerStatuses == {200, 400, 404, 422, 502}

InitHttp ==
    /\ StreamIdle
    /\ RewriteIdle
    /\ ResponseIdle
    /\ ServiceIdle

\* A request reaches the middleware.
Arrive(supplied) ==
    /\ http.at \in {"idle", "responded"}
    /\ http.served < MaxExchanges
    /\ http' = Exchange("received", supplied, "", 0, "", http.served)
    /\ UNCHANGED <<stream_vars, cache, rewrite_vars, response_vars, clients, rewrite_pc, wire, watcher>>

\* dispatch, lines 21-36: generate_request_id() is stored in request.state
\* and call_next is awaited.
Dispatch(fresh) ==
    /\ http.at = "received"
    /\ http' = [http EXCEPT !.at = "handling", !.request_id = fresh]
    /\ UNCHANGED <<stream_vars, cache, rewrite_vars, response_vars, clients, rewrite_pc, wire, watcher>>

\* Lines 38-52: call_next returned a response; the header is set on it.
Respond(status) ==
    /\ http.at = "handling"
    /\ http' = [http EXCEPT !.at = "responded", !.status = status,
                            !.header = http.request_id, !.served = @ + 1]
    /\ UNCHANGED <<stream_vars, cache, rewrite_vars, response_vars, clients, rewrite_pc, wire, watcher>>

\* Lines 54-82: call_next raised; a 500 response is built with the header.
HandlerRaises ==
    /\ http.at = "handling"
    /\ http' = [http EXCEPT !.at = "responded", !.status = 500,
                            !.header = http.request_id, !.served = @ + 1]
    /\ UNCHANGED <<stream_vars, cache, rewrite_vars, response_vars, clients, rewrite_pc, wire, watcher>>

NextHttp ==
    \/ \E supplied \in SuppliedIds : Arrive(supplied)
    \/ \E fresh \in FreshIds : Dispatch(fresh)
    \/ \E status \in HandlerStatuses : Respond(status)
    \/ HandlerRaises

SpecHttp == InitHttp /\ [][NextHttp]_vars

\* ------------------------------------------------------ the ConfigWatcher
\* The calls made on one watcher and the events of its configuration file,
\* MaxWatcherCalls of them at most.
MaxWatcherCalls == 4

\* start_watching with the guard of lines 102-104 forgotten.
start_watching_unguarded(w, exists) ==
    IF ~exists THEN w
    ELSE [w EXCEPT !.executor = TRUE, !.handler = TRUE, !.observer = TRUE,
                   !.observers = @ + 1]

\* start_watching (lines 100-125); `exists` is config_path.exists().
start_watching(w, exists) ==
    IF w.observer THEN w
    ELSE IF ~exists THEN w
    ELSE [w EXCEPT !.executor = TRUE, !.handler = TRUE, !.observer = TRUE,
                   !.observers = @ + 1]

\* stop_watching that leaves the thread pool in place.
stop_watching_keeping_executor(w, valid) ==
    IF ~w.observer THEN w
    ELSE [w EXCEPT !.observers = @ - 1, !.observer = FALSE, !.handler = FALSE]

\* stop_watching (lines 127-141): the observer thread is stopped and joined;
\* shutdown(wait=True) lets the queued tasks run, each running the reload
\* callbacks when the file is valid JSON (lines 153-171).
stop_watching(w, valid) ==
    IF ~w.observer THEN w
    ELSE [w EXCEPT !.observers = @ - 1, !.observer = FALSE, !.handler = FALSE,
                   !.reloads = IF w.executor /\ valid THEN @ + w.queued ELSE @,
                   !.queued = IF w.executor THEN 0 ELSE @,
                   !.executor = FALSE]

\* One more call or file event.
called(w, op) == [w EXCEPT !.op = op, !.calls = @ + 1]

\* The watcher's own state is all that changes.
WatcherOnly ==
    UNCHANGED <<stream_vars, cache, rewrite_vars, response_vars,
                clients, http, rewrite_pc, wire>>

InitWatcher ==
    /\ StreamIdle
    /\ RewriteIdle
    /\ ResponseIdle
    /\ ServiceIdle

\* `await watcher.start_watching()`: the coroutine has no await inside, so
\* it runs as one step of the event loop.
StartWatching(exists) ==
    /\ watcher.calls < MaxWatcherCalls
    /\ watcher' = called(start_watching(watcher, exists), "start_watching")
    /\ WatcherOnly

StopWatching(valid) ==
    /\ watcher.calls < MaxWatcherCalls
    /\ watcher' = called(stop_watching(watcher, valid), "stop_watching")
    /\ WatcherOnly

\* __enter__ (lines 211-214) calls the coroutine function without awaiting
\* it: a coroutine object is made and dropped, start_watching never runs.
Enter ==
    /\ watcher.calls < MaxWatcherCalls
    /\ watcher' = called(watcher, "__enter__")
    /\ WatcherOnly

\* __exit__ (lines 216-219)
Exit(valid) ==
    /\ watcher.calls < MaxWatcherCalls
    /\ watcher' = called(stop_watching(watcher, valid), "__exit__")
    /\ WatcherOnly

\* on_modified (lines 36-58) on a running observer's thread; `relevant`: the
\* event is for the configuration file and its mtime is new, so that a
\* Timer is started.
Modified(relevant) ==
    /\ watcher.calls < MaxWatcherCalls
    /\ watcher.observers > 0
    /\ watcher' = called([watcher EXCEPT !.timers = IF relevant THEN @ + 1 ELSE @],
                         "on_modified")
    /\ WatcherOnly

\* A Timer thread runs _on_config_changed up to the test of line 148:
\* without an executor the reload is skipped (line 151).
OnConfigChanged ==
    /\ watcher.timers > 0
    /\ watcher' = [watcher EXCEPT !.timers = @ - 1,
                                  !.checked = IF watcher.executor THEN @ + 1 ELSE @,
                                  !.op = "_on_config_changed"]
    /\ WatcherOnly

\* Line 149 on that thread: self._executor is read again; when
\* stop_watching has set it to None in between, the call raises and
\* _execute_callback logs it (lines 62-65).
Submit ==
    /\ watcher.checked > 0
    /\ watcher' = [watcher EXCEPT !.checked = @ - 1,
                                  !.queued = IF watcher.executor THEN @ + 1 ELSE @,
                                  !.op = "submit"]
    /\ WatcherOnly

\* The executor's thread runs _handle_config_change (lines 173-185): the
\* callbacks run when the file is valid JSON.
HandleConfigChange(valid) ==
    /\ watcher.executor
    /\ watcher.queued > 0
    /\ watcher' = [watcher EXCEPT !.queued = @ - 1,
                                  !.reloads = IF valid THEN @ + 1 ELSE @,
                                  !.op = "_handle_config_change"]
    /\ WatcherOnly

NextWatcher ==
    \/ \E exists \in BOOLEAN : StartWatching(exists)
    \/ \E valid \in BOOLEAN : StopWatching(valid)
    \/ Enter
    \/ \E valid \in BOOLEAN : Exit(valid)
    \/ \E relevant \in BOOLEAN : Modified(relevant)
    \/ OnConfigChanged
    \/ Submit
    \/ \E valid \in BOOLEAN : HandleConfigChange(valid)

SpecWatcher == InitWatcher /\ [][NextWatcher]_vars

\* ------------------------------------------------- reading the rewriter
\* The rewriter returned an OpenAIRequest.
Built == openai_request.status = "built"
\* The ids a message's tool calls declare.
DeclaredIds(m) == {m.tool_calls[c] : c \in 1..Len(m.tool_calls)}
\* The positions of the run of tool messages that follows position i.
ToolRun(msgs, i) == (i + 1)..(tool_run_end(msgs, i + 1) - 1)
\* The messages handed to the repair pass for the request.
Converted ==
    _convert_system_message(anthropic_request.system)
        \o convert_each(anthropic_request.messages)

\* --------------------------------------------------------------------- C12
\* C12: in the message list the rewriter returns, every assistant message
\* with tool calls is followed by a run of tool messages holding exactly one
\* tool message for each declared id and no tool message with another id.
C12_ToolCallIntegrity ==
    Built =>
        \A i \in 1..Len(openai_request.messages) :
            HasToolCalls(openai_request.messages[i]) =>
                /\ \A k \in ToolRun(openai_request.messages, i) :
                      openai_request.messages[k].tool_call_id
                          \in DeclaredIds(openai_request.messages[i])
                /\ \A id \in DeclaredIds(openai_request.messages[i]) :
                      Cardinality({k \in ToolRun(openai_request.messages, i) :
                          openai_request.messages[k].tool_call_id = id}) = 1

\* --------------------------------------------------------------------- C13
\* C13: in the message list the rewriter returns, every tool message has an
\* earlier assistant message, in that list, whose tool calls declare its
\* tool_call_id.
C13_ToolMessagesDeclared ==
    Built =>
        \A k \in 1..Len(openai_request.messages) :
            openai_request.messages[k].role = "tool" =>
                \E i \in 1..(k - 1) :
                    /\ HasToolCalls(openai_request.messages[i])
                    /\ openai_request.messages[k].tool_call_id
                           \in DeclaredIds(openai_request.messages[i])

\* --------------------------------------------------------------------- C14
\* Every tool call of the assistant message at position i is answered by a
\* tool message of the run that follows it.
AllAnswered(msgs, i) ==
    \A id \in DeclaredIds(msgs[i]) :
        \E k \in ToolRun(msgs, i) : msgs[k].tool_call_id = id
\* Position p survives the repair: an assistant with tool calls when all of
\* them are answered, a tool message when it is in the run of such an
\* assistant, any other message always.
Survives(msgs, p) ==
    IF HasToolCalls(msgs[p]) THEN AllAnswered(msgs, p)
    ELSE IF msgs[p].role = "tool"
    THEN \E i \in 1..(p - 1) :
            HasToolCalls(msgs[i]) /\ p \in ToolRun(msgs, i) /\ AllAnswered(msgs, i)
    ELSE TRUE
RECURSIVE Survivors(_, _)
Survivors(msgs, p) ==
    IF p > Len(msgs) THEN <<>>
    ELSE (IF Survives(msgs, p) THEN <<msgs[p]>> ELSE <<>>) \o Survivors(msgs, p + 1)

\* C14: the repair pass raises no error and drops wholesale: an assistant
\* message whose tool calls are not all answered by the tool messages that
\* follow it is removed together with those tool messages, and every other
\* message is returned.
C14_DropsWholesale ==
    (openai_request.status # "pending"
        /\ anthropic_request.thinking = "None"
        /\ \A k \in 1..Len(anthropic_request.messages) :
              ~EmptyContent(anthropic_request.messages[k]))
    => /\ Built
       /\ openai_request.messages = Survivors(Converted, 1)

\* --------------------------------------------------------------------- C15
\* The response was assembled by convert_response.
Assembled == anthropic_response.status = "assembled"

\* C15: the token-cache entry stored under the request's id is consumed and
\* removed by the non-streaming assembler or by the stream finisher: once a
\* response has been assembled or a stream finalized, the cache holds no
\* entry for request_id.
C15_CacheConsumed == (Finalized \/ Assembled) => cache[request_id] = 0

\* --------------------------------------------------------------------- C16
\* The usage carried by the terminal chunk of a finalized stream.
TerminalUsage == inputs[Len(inputs)].usage
\* Upstream usage with prompt_tokens >= 1 and completion_tokens >= 1.
FullUsage(usage) ==
    /\ usage.shape = "object"
    /\ usage.prompt_tokens >= 1
    /\ usage.completion_tokens >= 1

\* C16: when the upstream response (non-streaming) or the terminal chunk
\* (streaming) carries usage with prompt_tokens = p >= 1 and
\* completion_tokens = c >= 1, the usage delivered to the client (the
\* response's usage, respectively the message_delta's usage) has
\* input_tokens = p and output_tokens = c, whatever the token cache holds and
\* whatever output text was accumulated.
C16_UsageConservation ==
    /\ (Finalized /\ FullUsage(TerminalUsage)) =>
          /\ Count("message_delta") = 1
          /\ \A i \in 1..Len(events) :
                events[i].type = "message_delta" =>
                    events[i].data = << TerminalUsage.prompt_tokens,
                                       TerminalUsage.completion_tokens >>
    /\ (Assembled /\ FullUsage(openai_response.usage)) =>
          /\ anthropic_response.usage.input_tokens = openai_response.usage.prompt_tokens
          /\ anthropic_response.usage.output_tokens =
                openai_response.usage.completion_tokens

\* A stream finalized by a chunk with full usage after text was accumulated,
\* and a response with full usage and a non-empty text assembled, while the
\* cache holds an estimate for the request that differs from prompt_tokens.
C16_Witness ==
    /\ Finalized
    /\ FullUsage(TerminalUsage)
    /\ state.accumulated_content # <<>>
    /\ Assembled
    /\ FullUsage(openai_response.usage)
    /\ anthropic_response.content # <<>>
    /\ cache[request_id] = CachedTokens
    /\ CachedTokens # TerminalUsage.prompt_tokens
    /\ CachedTokens # openai_response.usage.prompt_tokens

\* --------------------------------------------------------------------- C17
\* The request is one that model selection applies to: no comma in the model
\* string, models.default configured, and messages that convert.
Selecting ==
    /\ openai_request.status # "pending"
    /\ ~Contains(anthropic_request.model, ",")
    /\ config.models.default # Unset
    /\ \A k \in 1..Len(anthropic_request.messages) :
          ~EmptyContent(anthropic_request.messages[k])

\* C17: a request whose thinking field is the boolean true, or the object
\* with type "enabled", with a comma-free model, models.default configured
\* and a token estimate of at most 100,000, is rewritten without error and
\* its upstream model is config.models.think.
C17_ThinkingSelectsThinkModel ==
    (Selecting
        /\ anthropic_request.thinking \in {"True", "enabled"}
        /\ total_tokens <= LongContextThreshold)
    => (Built /\ openai_request.model = config.models.think)

\* --------------------------------------------------------------------- C18
\* Thinking is enabled: the boolean true or the object with type "enabled".
ThinkingEnabled == anthropic_request.thinking \in {"True", "enabled"}

\* C18: for a model string without a comma and with models.default
\* configured the upstream model is models.longContext when the token
\* estimate exceeds 100,000, otherwise models.think when thinking is enabled,
\* otherwise models.small when the model string contains "haiku", otherwise
\* models.default.
C18_SelectionPriority ==
    Selecting =>
        /\ Built
        /\ openai_request.model =
              IF total_tokens > LongContextThreshold THEN config.models.longContext
              ELSE IF ThinkingEnabled THEN config.models.think
              ELSE IF Contains(anthropic_request.model, "haiku") THEN config.models.small
              ELSE config.models.default

\* --------------------------------------------------------------------- C19
\* C19: the request's model string is returned unchanged whenever it holds a
\* comma, whatever the thinking field, the token estimate and the configured
\* models are, and whenever config.models.default is unset.
C19_EscapeHatches ==
    (openai_request.status # "pending"
        /\ (Contains(anthropic_request.model, ",") \/ config.models.default = Unset))
    => (Built /\ openai_request.model = anthropic_request.model)

\* A model string with a comma and the haiku hint went through unchanged
\* although models.default is configured, thinking is the boolean true and
\* the estimate is above the threshold.
C19_Witness ==
    /\ Built
    /\ Contains(anthropic_request.model, ",")
    /\ Contains(anthropic_request.model, "haiku")
    /\ config.models.default # Unset
    /\ anthropic_request.thinking = "True"
    /\ total_tokens > LongContextThreshold
    /\ openai_request.model = anthropic_request.model

\* --------------------------------------------------------------------- C20
\* The value sent upstream for one parameter: the configured override when
\* there is one, the client's value otherwise.
Resolved(override, client, sent) ==
    sent = IF override # NoParam THEN override ELSE client

\* C20: each of max_tokens, temperature, top_p and top_k is resolved on its
\* own: the value sent upstream is the configured override when one is
\* configured, an override of 0 included, and the client's value otherwise,
\* whatever is configured for the other three.
C20_OverridesPerParameter ==
    Built =>
        /\ Resolved(config.parameter_overrides.max_tokens,
                    anthropic_request.params.max_tokens,
                    openai_request.params.max_tokens)
        /\ Resolved(config.parameter_overrides.temperature,
                    anthropic_request.params.temperature,
                    openai_request.params.temperature)
        /\ Resolved(config.parameter_overrides.top_p,
                    anthropic_request.params.top_p,
                    openai_request.params.top_p)
        /\ Resolved(config.parameter_overrides.top_k,
                    anthropic_request.params.top_k,
                    openai_request.params.top_k)

\* An override of 0 replaced the client's temperature while top_k, with no
\* override, kept the client's value and max_tokens took its own override.
C20_Witness ==
    /\ Built
    /\ config.parameter_overrides.temperature = 0
    /\ anthropic_request.params.temperature = 1
    /\ openai_request.params.temperature = 0
    /\ config.parameter_overrides.top_k = NoParam
    /\ openai_request.params.top_k = 5
    /\ config.parameter_overrides.max_tokens = 7
    /\ openai_request.params.max_tokens = 7

\* --------------------------------------------------------------------- C21
\* Every message of the request has a string content, and nothing else of the
\* request adds a message or raises.
StringsOnly ==
    /\ openai_request.status # "pending"
    /\ anthropic_request.thinking = "None"
    /\ anthropic_request.system = ""
    /\ \A k \in 1..Len(anthropic_request.messages) :
          anthropic_request.messages[k].form = "str"

\* C21: the rewrite is the identity on string content: for every message
\* whose content is a string (any string, role user or assistant), the
\* rewriter emits exactly one OpenAI message with the same role whose content
\* is the identical string, and the conversion does not fail.
C21_StringIdentity ==
    StringsOnly =>
        /\ Built
        /\ Len(openai_request.messages) = Len(anthropic_request.messages)
        /\ \A k \in 1..Len(anthropic_request.messages) :
              openai_request.messages[k] =
                  OpenAIMessage(anthropic_request.messages[k].role, "str",
                                <<anthropic_request.messages[k].text>>, <<>>, NoId)

\* --------------------------------------------------------------------- C22
\* The string X of the request's message in a text-only exchange.
X == anthropic_request.messages[1].text
\* The response holds exactly one block, a text block whose text is `text`.
OneTextBlock(text) ==
    anthropic_response.content = <<AnthropicContentBlock("text", text, "", "", <<>>)>>

PlainText(text) ==
    /\ text # <<>>
    /\ strip(text) = text
    /\ think_findall(text, 1) = <<>>

Produced ==
    IF openai_response.message.present
    THEN blocks_before_tools(openai_response.message,
                             reasoning_blocks(openai_response.message.reasoning_content))
         \o tool_use_blocks(openai_response.message.tool_calls)
    ELSE <<>>

\* C23: the assembler never returns an empty content list: for every
\* upstream response with a non-empty choices list, when no thinking, text
\* or tool_use block was produced from the first choice (its message may be
\* missing or empty), the result holds exactly one text block with empty
\* text.
C23_NeverEmptyContent ==
    Assembled =>
        /\ anthropic_response.content # <<>>
        /\ Produced = <<>> => OneTextBlock(<<>>)

\* --------------------------------------------------------------------- C24
\* The per-stream state the specification names: every field of StreamState
\* but the two statistics counters.
Tracked(st) == [f \in DOMAIN st \ {"total_chunks", "tool_call_chunks"} |-> st[f]]

\* C24: a parsed chunk that contains an error object yields exactly one
\* error event of type api_error and no other event, leaves the stream
\* state unchanged, and the converter keeps reading, so that later chunks
\* are processed as they would have been.
C24_ErrorChunk ==
    [][ (IsReceive /\ has_error(Received)) =>
           /\ Yielded = <<error_event>>
           /\ Tracked(state') = Tracked(state)
           /\ pc' = "reading" ]_vars

\* An error chunk was received in mid-stream and text was forwarded after it.
C24_Witness ==
    /\ pc = "reading"
    /\ \E k \in 2..Len(inputs) : has_error(inputs[k])
    /\ \E i \in 1..Len(events) :
          /\ events[i].type = "error"
          /\ \E j \in 1..(i - 1) : IsDelta(events[j], "text_delta")
          /\ \E j \in (i + 1)..Len(events) : IsDelta(events[j], "text_delta")

\* --------------------------------------------------------------------- C25
\* The step converts a parsed chunk and an exception is raised on the way:
\* in process_thinking_content (inline mode, content null), or in
\* process_finish_event after it has set has_finished (no message_stop).
ThinkingRaised ==
    /\ ~nothing_to_process(Received)
    /\ process_thinking_content(Received, message_start(state, cache).state).raised
FinishRaised ==
    /\ state'.has_finished
    /\ \A i \in 1..Len(Yielded) : Yielded[i].type # "message_stop"
ConversionRaised ==
    IsReceive /\ ~has_error(Received) /\ (ThinkingRaised \/ FinishRaised)
\* The step yields exactly one error event, as its last event.
YieldsError ==
    /\ Len(Yielded) >= 1
    /\ Yielded[Len(Yielded)] = error_event
    /\ \A i \in 1..(Len(Yielded) - 1) : Yielded[i].type # "error"
\* The step is the failure of a read of the upstream.
ReadFailed == pc = "reading" /\ pc' = "closed" /\ events' # events

Called(a) == clients'[a].calls # clients[a].calls
C27_ConsistentSnapshot ==
    rewrite_pc.at = "done" =>
        \E cfg \in Versions :
            openai_request =
                convert_anthropic_to_openai(anthropic_request, total_tokens, cfg)

\* C28: every response, a handler's or the 500 built for an exception,
\* carries an X-Request-ID header, and the header repeats the X-Request-ID
\* of the request when the client sent one.
C28_EchoesRequestId ==
    http.at = "responded" =>
        /\ http.header # ""
        /\ http.supplied # "" => http.header = http.supplied

\* --------------------------------------------------------------------- C29
\* The thinking block at index i is closed by the events yielded: a
\* signature_delta and then its content_block_stop.
ClosesThinking(i) ==
    \E k \in 1..(Len(Yielded) - 1) :
        /\ IsDelta(Yielded[k], "signature_delta")
        /\ Yielded[k + 1] = content_block_stop(i)

\* C29: in reasoning mode a delta whose reasoning_content is absent or the
\* empty string ends the thinking phase: the thinking block is closed with
\* signature_delta and content_block_stop, content_index moves on and
\* thinking_mode becomes none; after that the non-empty content of a delta
\* is emitted as text.
C29_ReasoningEnds ==
    [][ /\ (IsReceive /\ state.thinking_mode = 2
                      /\ ~Truthy(Received.reasoning_content)) =>
              /\ ClosesThinking(state.content_index)
              /\ state'.content_index = state.content_index + 1
              /\ state'.thinking_mode = 0
        /\ (IsReceive /\ state.thinking_finish /\ state.thinking_mode = 0
                      /\ state.thinking_started
                      /\ Truthy(Received.content)) =>
              \E k \in 1..Len(Yielded) :
                  Yielded[k] = content_block_delta(state'.content_index,
                                                   "text_delta", Received.content)
      ]_vars

\* --------------------------------------------------------------------- C30
\* The content of the received delta holds a closing think tag.
HasClosingTag(chunk) ==
    /\ chunk.content # None
    /\ Contains(chunk.content, "</think>") \/ Contains(chunk.content, "</thinking>")

\* C30: in inline mode the delta that holds the closing tag ends the
\* thinking phase once its remaining text, the content without the think
\* tags, has been emitted as thinking_delta: the thinking block is closed
\* with signature_delta and content_block_stop and thinking_mode becomes
\* none; no text_delta of a delta received in inline mode carries tag text.
C30_InlineEnds ==
    [][ /\ (IsReceive /\ state.thinking_mode = 1 /\ HasClosingTag(Received)) =>
              /\ StripThinkTags(Received.content) # <<>> =>
                     \E k \in 1..Len(Yielded) :
                         Yielded[k] = content_block_delta(
                                          state.content_index, "thinking_delta",
                                          StripThinkTags(Received.content))
              /\ ClosesThinking(state.content_index)
              /\ state'.thinking_mode = 0
        /\ (IsReceive /\ state.thinking_mode = 1) =>
              \A k \in 1..Len(Yielded) :
                  IsDelta(Yielded[k], "text_delta") =>
                      /\ ~Contains(Yielded[k].data, "<think>")
                      /\ ~Contains(Yielded[k].data, "</think>")
      ]_vars

\* --------------------------------------------------------------------- C31
\* The conversion of a whole text handed over in one piece.
ConvertLines(lines) == process_lines(lines, Out(StreamState, <<>>, WireCache))
DeliveredLines == split_lines(wire.delivered, <<>>, <<>>).lines
\* A data line whose payload is not valid JSON.
BadJson(line) ==
    /\ line # <<>>
    /\ Head(line) = DataPrefix
    /\ Tail(line) # <<"[DONE]">>
    /\ json_loads(Tail(line)).raised

WholeText == wire.delivered \o wire.pending

\* C38: the events depend on the concatenation of the upstream chunks only,
\* not on where the chunks were cut: after any chunks the state, the events
\* and the cache are those of the delivered text handed over in one piece,
\* the text after the last newline stays in the buffer unconverted, and when
\* the converter has returned the events are those of the whole text.
C38_SplitIndependence ==
    /\ <<state, events, cache>> =
           <<ConvertLines(DeliveredLines).state,
             ConvertLines(DeliveredLines).events,
             ConvertLines(DeliveredLines).cache>>
    /\ wire.buffer = split_lines(wire.delivered, <<>>, <<>>).rest
    /\ pc = "closed" =>
           events = ConvertLines(split_lines(WholeText, <<>>, <<>>).lines).events

\* A chunk ended inside a data line, after the text of an earlier line was
\* forwarded.
C38_Witness ==
    /\ pc = "reading"
    /\ wire.buffer = <<DataPrefix, "{world">>
    /\ wire.pending # <<>>
    /\ Head(wire.pending) = "}"
    /\ Len(events) > 0
    /\ events[Len(events)] = content_block_delta(1, "text_delta", <<"world">>)

\* --------------------------------------------------------------------- C32
\* The step is a read of the cache by request a.
Read(a) == Called(a) /\ clients'[a].op = "get_cached_tokens"

TextAndImages ==
    SelectSeq(anthropic_request.messages[1].blocks,
              LAMBDA b : b.type \in {"text", "image"})

\* C33: the content parts of the main OpenAI message emitted for a message
\* with list content are its text blocks and its image blocks, all of them
\* and in source order: none is omitted.
C33_PartsKept ==
    openai_request.status = "built" =>
        \A i \in 1..Len(openai_request.messages) :
            openai_request.messages[i].role # "tool" =>
                openai_request.messages[i].parts =
                    [k \in 1..Len(TextAndImages) |-> TextAndImages[k].text]

\* C34: whenever has_finished is set, message_delta and message_stop have
\* been delivered, whatever the shape of the finish chunk's usage field.
C34_FinishedIsFinalized ==
    state.has_finished => Count("message_delta") = 1 /\ Count("message_stop") = 1

\* --------------------------------------------------------------------- C35
\* The type of block a delta of the given kind belongs to.
DeltaBlockType(kind) ==
    CASE kind = "text_delta" -> "text"
      [] kind \in {"thinking_delta", "signature_delta"} -> "thinking"
      [] kind = "input_json_delta" -> "tool_use"
      [] OTHER -> "None"

\* Event i is a delta to a block that is open at its index, started at j
\* and neither stopped nor started again since, and of the delta's type.
TargetsOpenBlock(i) ==
    \E j \in 1..(i - 1) :
        /\ events[j].type = "content_block_start"
        /\ events[j].index = events[i].index
        /\ events[j].kind = DeltaBlockType(events[i].kind)
        /\ \A k \in (j + 1)..(i - 1) :
               ~ /\ events[k].type \in {"content_block_start", "content_block_stop"}
                 /\ events[k].index = events[i].index

\* C35: every content_block_delta carries the index of a block that is open
\* and whose type matches the delta, for every interleaving of text,
\* thinking and tool-call deltas.
C35_DeltasTargetOpenBlocks ==
    \A i \in 1..Len(events) :
        events[i].type = "content_block_delta" => TargetsOpenBlock(i)

\* --------------------------------------------------------------------- C36
\* The upstream tool-call index of the chunk just received, when the chunk
\* carries exactly one tool call: every input_json_delta of the step is a
\* fragment of that tool call.
ReceivedToolIndex == Received.tool_calls[1].index

\* C36: every input_json_delta carrying an arguments fragment of upstream
\* tool call k has the block index recorded for k in the tool-call state,
\* and the content_block_start of k was emitted at that recorded index, so
\* that fragments go to the block of their own tool call also when a later
\* tool call has been opened in between.
C36_FragmentsAtOwnBlock ==
    [][IsReceive /\ Len(Received.tool_calls) = 1 =>
          /\ \A i \in 1..Len(Yielded) :
                 IsDelta(Yielded[i], "input_json_delta") =>
                     /\ ReceivedToolIndex \in DOMAIN state'.tool_calls
                     /\ Yielded[i].index =
                            state'.tool_calls[ReceivedToolIndex].content_block_index
          /\ ( /\ ReceivedToolIndex \notin DOMAIN state.tool_calls
               /\ ReceivedToolIndex \in DOMAIN state'.tool_calls ) =>
                 \E i \in 1..Len(Yielded) :
                     /\ IsStart(Yielded[i])
                     /\ Yielded[i].kind = "tool_use"
                     /\ Yielded[i].index =
                            state'.tool_calls[ReceivedToolIndex].content_block_index]_vars

\* --------------------------------------------------------------------- C37
\* The phase an event can only come from; block stops and pings are yielded
\* by several phases.
PhaseOf(e) ==
    CASE IsStart(e) /\ e.kind = "thinking" -> "thinking"
      [] IsDelta(e, "thinking_delta") \/ IsDelta(e, "signature_delta") -> "thinking"
      [] IsStart(e) /\ e.kind = "text" -> "text"
      [] IsDelta(e, "text_delta") -> "text"
      [] IsStart(e) /\ e.kind = "tool_use" -> "tool-call"
      [] IsDelta(e, "input_json_delta") -> "tool-call"
      [] e.type \in {"message_delta", "message_stop"} -> "finalization"
      [] OTHER -> "any"

\* The four phases run on the chunk in order, each on the state the one
\* before left, whether or not an earlier one yielded events.
StartRun == message_start(state, cache)
ThinkingRun(chunk) == process_thinking_content(chunk, StartRun.state)
TextRun(chunk) == process_regular_content(chunk, ThinkingRun(chunk).state)
ToolCallRun(chunk) ==
    IF chunk.tool_calls # <<>>
    THEN process_tool_calls(chunk, TextRun(chunk).state)
    ELSE Result(TextRun(chunk).state, <<>>, FALSE)
FinishRun(chunk) ==
    IF chunk.finish_reason # NoFinish
    THEN process_finish_event(chunk, ToolCallRun(chunk).state, cache)
    ELSE Result(ToolCallRun(chunk).state, <<>>, FALSE)
PhaseRuns(chunk) ==
    << ThinkingRun(chunk), TextRun(chunk), ToolCallRun(chunk), FinishRun(chunk) >>

\* The first phase, in the order thinking, text, tool-call, finalization,
\* that yields an event for the chunk; the last one if none does.
FirstYielding(chunk) ==
    IF \E p \in 1..4 : PhaseRuns(chunk)[p].events # <<>>
    THEN CHOOSE p \in 1..4 :
             /\ PhaseRuns(chunk)[p].events # <<>>
             /\ \A q \in 1..(p - 1) : PhaseRuns(chunk)[q].events = <<>>
    ELSE 4

\* C37: a chunk yields events of at most one of the phases thinking, text,
\* tool-call and finalization; the events and the state it leaves are those
\* of the first phase, in that order, that yields an event: no later phase
\* has run.
C37_OnePhasePerChunk ==
    [][( /\ IsReceive
         /\ ~has_error(Received)
         /\ ~nothing_to_process(Received)
         /\ ~ThinkingRun(Received).raised ) =>
          /\ Cardinality({PhaseOf(Yielded[i]) : i \in 1..Len(Yielded)} \ {"any"}) <= 1
          /\ Yielded = StartRun.events
                           \o PhaseRuns(Received)[FirstYielding(Received)].events
          /\ state' = PhaseRuns(Received)[FirstYielding(Received)].state]_vars

\* A chunk with reasoning, content, a tool call and a finish_reason was
\* received after a reasoning delta: it yielded its thinking delta only, no
\* text block and no tool call exist, and the stream is not finished.
C37_Witness ==
    /\ inputs = << ReasoningChunk(<<"plan">>),
                   Chunk(<<"Hello">>, <<"plan">>, <<ToolCall(0, "x", "f", <<"A">>)>>,
                         "stop", NoUsage) >>
    /\ events[Len(events)] = content_block_delta(0, "thinking_delta", <<"plan">>)
    /\ ~state.content_started
    /\ state.tool_calls = <<>>
    /\ ~state.has_finished

\* --------------------------------------------------------------------- C39
RECURSIVE IsSubsequence(_, _)
\* a is b with some elements deleted, the order kept.
IsSubsequence(a, b) ==
    IF a = <<>> THEN TRUE
    ELSE IF b = <<>> THEN FALSE
    ELSE IF Head(a) = Head(b) THEN IsSubsequence(Tail(a), Tail(b))
    ELSE IsSubsequence(a, Tail(b))

\* The messages that are neither tool messages nor assistants with tool calls.
Ordinary(msgs) ==
    SelectSeq(msgs, LAMBDA m : m.role # "tool" /\ ~HasToolCalls(m))

\* C39: the repair pass only deletes and is idempotent: what it returns is
\* an order-preserving subsequence of the list it was given, with every
\* message that is neither a tool message nor an assistant with tool calls
\* retained, and the pass applied to its own output returns it unchanged.
C39_RepairIdempotent ==
    [][/\ openai_request.status = "converted" /\ openai_request'.status = "repaired" =>
           /\ IsSubsequence(openai_request'.messages, openai_request.messages)
           /\ Ordinary(openai_request'.messages) = Ordinary(openai_request.messages)
       /\ openai_request.status = "repaired"
              /\ openai_request'.status = "repaired again" =>
           openai_request'.messages = openai_request.messages]_vars

\* The pass was applied twice to a list with an assistant declaring x and y
\* of which only x is answered, a user message and a stray tool message:
\* the user message alone is left.
C39_Witness ==
    openai_request =
        Repairing("repaired again",
                  << OpenAIMessage("assistant", "none", <<>>, <<"x", "y">>, NoId),
                     OpenAIMessage("tool", "str", <<"r">>, <<>>, "x"),
                     OpenAIMessage("user", "str", <<"a">>, <<>>, NoId),
                     OpenAIMessage("tool", "str", <<"r">>, <<>>, "y") >>,
                  << OpenAIMessage("user", "str", <<"a">>, <<>>, NoId) >>)

\* --------------------------------------------------------------------- C40
\* The step is a call of `op` on the watcher.
WatcherCall(op) == watcher'.calls = watcher.calls + 1 /\ watcher'.op = op
\* The call left the watcher as it was.
WatcherUntouched ==
    [watcher' EXCEPT !.op = watcher.op, !.calls = watcher.calls] = watcher

\* C40: never more than one observer runs, and start_watching while an
\* observer exists changes nothing; stop_watching leaves observer, handler
\* and executor none and changes nothing when there is no observer; a
\* notification that finds no executor queues no task and runs no reload
\* callback, and callbacks only ever run on an existing executor.
C40_WatcherLifecycle ==
    [][/\ watcher'.observers <= 1
       /\ watcher'.observer <=> watcher'.observers = 1
       /\ WatcherCall("start_watching") /\ watcher.observer => WatcherUntouched
       /\ WatcherCall("stop_watching") =>
              /\ ~watcher'.observer /\ ~watcher'.handler /\ ~watcher'.executor
              /\ watcher'.observers = 0
       /\ WatcherCall("stop_watching") /\ ~watcher.observer => WatcherUntouched
       /\ watcher'.op \in {"_on_config_changed", "submit"}
              /\ watcher'.timers + watcher'.checked < watcher.timers + watcher.checked
              /\ ~watcher.executor =>
              /\ watcher'.queued = watcher.queued
              /\ watcher'.reloads = watcher.reloads
              /\ watcher'.checked <= watcher.checked
       /\ watcher'.reloads > watcher.reloads => watcher.executor]_vars

\* The watcher was started, its file was modified, the watcher was stopped
\* before the Timer fired, and the Timer's notification then found no
\* executor: nothing is queued and no callback has run.
C40_Witness ==
    watcher = Watcher(FALSE, FALSE, FALSE, 0, 0, 0, 0, 0, "_on_config_changed", 3)

====
